---------------------------- MODULE Spec2Model ----------------------------
(* View-state and mutation engine of dataframe-textual                    *)
(* (src/src/dataframe_textual/data_frame_table.py, class DataFrameTable). *)
(*                                                                         *)
(* The table widget owns the working dataframe df, the reset baseline      *)
(* dataframe, the pagination cursor loaded_rows, the ordered sort keys     *)
(* sorted_columns, the selected_rows / visible_rows flag lists, the freeze *)
(* counts and the undo stack histories.  Every key handler of on_key is    *)
(* one action.  Handlers are written as operators over a record holding    *)
(* the widget's fields, so that a handler's calls (_add_history,           *)
(* _setup_table, _load_rows, _highlight_rows, move_cursor) compose the way *)
(* they do in the source.                                                  *)
(*                                                                         *)
(* Collaborators outside the repository are modelled by their documented   *)
(* behaviour: polars (filter, sort, drop, slice/concat) and Textual's      *)
(* DataTable (clear() empties rows and columns and puts the cursor back to *)
(* (0, 0); the cursor is clamped to the table; a cell key of a coordinate  *)
(* outside the table raises CellDoesNotExist).  An exception that leaves a *)
(* handler ends the Textual application: status becomes "crashed" and no   *)
(* further handler runs.                                                   *)
EXTENDS Integers, Sequences, FiniteSets, TLC

---------------------------------------------------------------------------
(* Values.  A cell holds a null or a value of the column's type; values    *)
(* are modelled by small integers (for a String column: the rank of the    *)
(* string in lexicographic order).                                         *)

\* common.py: NULL, the null marker; python None in a cell.
NULL == 0

\* Pagination settings of common.py (100 and 50 in the source), scaled to
\* datasets of three rows so that a part of the rows is not loaded at first.
INITIAL_BATCH_SIZE == 2
BATCH_SIZE == 1

\* _check_and_load_more loads more when the last row in view is within this
\* many rows of loaded_rows (10 in the source, scaled as the batch sizes).
NearBottomRows == 1

\* Bound on the number of keys the table handles in one behaviour.
MaxSteps == 3
\* The same bound for the behaviours that only sort.
MaxSortSteps == 7
\* The same bound for the behaviours that compile an expression.
MaxExprSteps == 2
\* The keys pressed in a behaviour that only searches, selects and filters.
MaxScopeSteps == 4
\* The keys pressed in a behaviour in which the mouse wheel keeps scrolling,
\* and the greatest number of rows the window shows at a time.
MaxLoadSteps == 2
MaxViewport == 2
\* Bounds on the expressions compiled: the comparisons joined by && and ||
\* in a predicate, and the pieces of an expression without a reference.
MaxTerms == 3
MaxPieces == 3

---------------------------------------------------------------------------
(* Sequence helpers (python lists are 0-based, TLA+ sequences 1-based).    *)

Range(f) == {f[i] : i \in DOMAIN f}

\* lst[i] for a 0-based index i.
At(lst, i) == lst[i + 1]

\* [v] * n
Repeat(v, n) == [i \in 1..n |-> v]

\* lst with the 0-based positions i and j exchanged.
Swap(lst, i, j) ==
    [k \in DOMAIN lst |-> IF k = i + 1 THEN lst[j + 1]
                          ELSE IF k = j + 1 THEN lst[i + 1] ELSE lst[k]]

\* lst without its 0-based position i.
RemoveAt(lst, i) ==
    [k \in 1..(Len(lst) - 1) |-> IF k < i + 1 THEN lst[k] ELSE lst[k + 1]]

\* The elements of lst whose 0-based index is in keep, in order.
RECURSIVE KeepIdx(_, _, _)
KeepIdx(lst, keep, i) ==
    IF i >= Len(lst) THEN <<>>
    ELSE (IF i \in keep THEN <<At(lst, i)>> ELSE <<>>) \o KeepIdx(lst, keep, i + 1)

\* lst.count(True)
CountTrue(lst) == Cardinality({i \in DOMAIN lst : lst[i]})

\* common.py _rindex: the last 0-based index of value in lst, -1 if absent.
_rindex(lst, value) ==
    IF \E i \in DOMAIN lst : lst[i] = value
    THEN (CHOOSE i \in DOMAIN lst :
              lst[i] = value /\ \A j \in DOMAIN lst : lst[j] = value => j <= i) - 1
    ELSE -1

Min(a, b) == IF a < b THEN a ELSE b
Max(a, b) == IF a > b THEN a ELSE b

---------------------------------------------------------------------------
(* polars DataFrame: column names in order and rows of cells in order.     *)

Height(d) == Len(d.rows)
Width(d) == Len(d.columns)

\* df.columns.index(name), 0-based; -1 if absent.
ColIndex(d, name) ==
    IF \E i \in DOMAIN d.columns : d.columns[i] = name
    THEN (CHOOSE i \in DOMAIN d.columns : d.columns[i] = name) - 1
    ELSE -1

\* df.item(row_idx, col_idx)
Item(d, row_idx, col_idx) == At(At(d.rows, row_idx), col_idx)

\* df.filter(mask) for a boolean list of the frame's height.
FilterMask(d, mask) ==
    [d EXCEPT !.rows = KeepIdx(d.rows, {i \in 0..(Height(d) - 1) : At(mask, i)}, 0)]

\* df.drop(name).  A polars frame without columns has no rows.
Drop(d, name) ==
    LET c == ColIndex(d, name)
    IN  IF Width(d) = 1 THEN [columns |-> <<>>, rows |-> <<>>]
        ELSE [columns |-> RemoveAt(d.columns, c),
              rows |-> [r \in DOMAIN d.rows |-> RemoveAt(d.rows[r], c)]]

\* df.select(cols) with cols the frame's columns, positions i and j exchanged.
SelectSwapped(d, i, j) ==
    [columns |-> Swap(d.columns, i, j),
     rows |-> [r \in DOMAIN d.rows |-> Swap(d.rows[r], i, j)]]

\* pl.concat of the five slices of _move_row: rows first and second exchanged.
ConcatSwapped(d, first, second) == [d EXCEPT !.rows = Swap(d.rows, first, second)]

\* with_columns(when(arange == row_idx).then(lit(v)).otherwise(col)).
WithCell(d, row_idx, col_idx, v) ==
    [d EXCEPT !.rows[row_idx + 1][col_idx + 1] = v]

---------------------------------------------------------------------------
(* polars sort(by, descending=flags, nulls_last=True).  The call does not  *)
(* ask for maintain_order, so rows that compare equal on all keys may come *)
(* out in any order: the result is any permutation that is ordered.        *)

\* The order without nulls_last: a null is the least value, first in an
\* ascending key and last in a descending one.
RECURSIVE Before_null_least(_, _, _, _, _)
Before_null_least(d, a, b, keys, k) ==
    IF k > Len(keys) THEN FALSE
    ELSE LET c  == ColIndex(d, keys[k].col)
             va == At(a, c)
             vb == At(b, c)
         IN  IF va = vb THEN Before_null_least(d, a, b, keys, k + 1)
             ELSE IF keys[k].desc THEN va > vb
             ELSE va < vb

\* Row a sorts strictly before row b on key position k and the later keys:
\* the first key on which they differ decides; a null sorts after every
\* value in both directions (nulls_last=True).
RECURSIVE Before(_, _, _, _, _)
Before(d, a, b, keys, k) ==
    IF k > Len(keys) THEN FALSE
    ELSE LET c  == ColIndex(d, keys[k].col)
             va == At(a, c)
             vb == At(b, c)
         IN  IF va = vb THEN Before(d, a, b, keys, k + 1)
             ELSE IF va = NULL THEN FALSE
             ELSE IF vb = NULL THEN TRUE
             ELSE IF keys[k].desc THEN va > vb
             ELSE va < vb

\* The lists of 0-based old row indices ("__rid__" after the sort) that the
\* sort may return.
SortOrders(d, keys) ==
    LET n == Height(d)
    IN  {p \in [1..n -> 0..(n - 1)] :
            /\ \A i, j \in 1..n : i # j => p[i] # p[j]
            /\ \A i, j \in 1..n :
                  i < j => ~Before(d, At(d.rows, p[j]), At(d.rows, p[i]), keys, 1)}

\* The frame with its rows in the order of old_row_indices.
Reordered(d, old_row_indices) ==
    [d EXCEPT !.rows = [i \in DOMAIN old_row_indices |-> At(d.rows, old_row_indices[i])]]

---------------------------------------------------------------------------
(* sorted_columns: a python dict col_name -> descending, which keeps the   *)
(* insertion order of its keys.  A list of [col, desc] entries.            *)

\* col in sorted_columns
DictHas(dict, col) == \E i \in DOMAIN dict : dict[i].col = col

\* sorted_columns.get(col): "None" when absent, else the flag.
DictGet(dict, col) ==
    IF DictHas(dict, col)
    THEN IF (CHOOSE i \in DOMAIN dict : dict[i].col = col) \in {i \in DOMAIN dict : dict[i].desc}
         THEN "True" ELSE "False"
    ELSE "None"

\* del sorted_columns[col]
DictDel(dict, col) == SelectSeq(dict, LAMBDA e : e.col # col)

\* sorted_columns[col] = desc: a present key keeps its place, a new key is
\* put at the end.
DictSet(dict, col, desc) ==
    IF DictHas(dict, col)
    THEN [i \in DOMAIN dict |-> IF dict[i].col = col THEN [col |-> col, desc |-> desc]
                                ELSE dict[i]]
    ELSE Append(dict, [col |-> col, desc |-> desc])

---------------------------------------------------------------------------
(* The widget.                                                             *)

VARIABLES
    df,                 \* self.df: the working dataframe
    dataframe,          \* self.dataframe: the dataframe reset goes back to
    filename,           \* self.filename
    loaded_rows,        \* self.loaded_rows
    sorted_columns,     \* self.sorted_columns
    selected_rows,      \* self.selected_rows
    visible_rows,       \* self.visible_rows
    fixed_rows,         \* self.fixed_rows
    fixed_columns,      \* self.fixed_columns
    histories,          \* self.histories, the last entry is the top
    pending_filename,   \* self._pending_filename
    cursor_coordinate,  \* DataTable.cursor_coordinate, [row, column], 0-based
    rows,               \* DataTable.ordered_rows: the row keys shown (key = row index + 1)
    columns,            \* DataTable.ordered_columns: the column keys shown
    modal,              \* the modal screen pushed by the widget, if any
    files,              \* the paths that exist on disk
    status,             \* "running", or "crashed" after an exception left a handler
    notice,             \* severity of the last app.notify of the last handler
    steps,              \* keys handled by the table so far
    budget,             \* keys the table may handle in this behaviour
    loaded,             \* the dataframe the widget was constructed with
    last_saved,         \* <<df>> as of the last successful save, <<>> if none
    last,               \* the last handler run: name, argument, outcome, state before it
    prev,               \* the handler run before the last one
    expression,         \* the text in the input of the filter dialog, a list of characters
    intent,             \* the predicate the user who typed expression means
    compiled,           \* what the expression compiler last returned
    refs                \* the list and dict objects the widget and the entries of histories hold

vars == <<df, dataframe, filename, loaded_rows, sorted_columns, selected_rows,
          visible_rows, fixed_rows, fixed_columns, histories, pending_filename,
          cursor_coordinate, rows, columns, modal, files, status, notice,
          steps, budget, loaded, last_saved, last, prev,
          expression, intent, compiled, refs>>

\* The widget's fields as one record, which the handlers below transform.
Self ==
    [df |-> df, dataframe |-> dataframe, filename |-> filename,
     loaded_rows |-> loaded_rows, sorted_columns |-> sorted_columns,
     selected_rows |-> selected_rows, visible_rows |-> visible_rows,
     fixed_rows |-> fixed_rows, fixed_columns |-> fixed_columns,
     histories |-> histories, pending_filename |-> pending_filename,
     cursor_coordinate |-> cursor_coordinate, rows |-> rows, columns |-> columns,
     modal |-> modal, files |-> files, status |-> status,
     notice |-> "", outcome |-> "", old_row_indices |-> <<>>]

NoModal == [kind |-> "none", row_key |-> 0, col_idx |-> 0]

Ok(s) == s.status = "running"

\* An exception leaves the handler.
Raise(s) == [s EXCEPT !.status = "crashed", !.outcome = "exception"]

\* app.notify(..., severity=severity)
Notify(s, severity) == IF Ok(s) THEN [s EXCEPT !.notice = severity] ELSE s

\* The path a handler took, for the claims.
Outcome(s, o) == IF Ok(s) THEN [s EXCEPT !.outcome = o] ELSE s

---------------------------------------------------------------------------
(* Textual DataTable.                                                      *)

\* is_valid_coordinate
ValidCoordinate(s, row, column) ==
    /\ 0 <= row /\ row < Len(s.rows)
    /\ 0 <= column /\ column < Len(s.columns)

\* validate_cursor_coordinate: the cursor is clamped to the table.
Clamp(s, row, column) ==
    [row |-> Max(0, Min(row, Len(s.rows) - 1)),
     column |-> Max(0, Min(column, Len(s.columns) - 1))]

\* move_cursor(row=row, column=column)
move_cursor(s, row, column) ==
    IF ~Ok(s) THEN s ELSE [s EXCEPT !.cursor_coordinate = Clamp(s, row, column)]

\* cursor_row_key raises CellDoesNotExist when the cursor is on no cell.
HasCursorCell(s) ==
    ValidCoordinate(s, s.cursor_coordinate.row, s.cursor_coordinate.column)

\* cursor_row_key.value as an integer.
cursor_row_key(s) == At(s.rows, s.cursor_coordinate.row)

\* cursor_column_key.value
cursor_column_key(s) == At(s.columns, s.cursor_coordinate.column)

---------------------------------------------------------------------------
(* Setup and loading.                                                      *)

\* The keys of all the rows start .. stop - 1, the hidden ones too.
NewKeys_hidden_too(s, start, stop) ==
    [k \in 1..(stop - start) |-> start + k]

\* The keys _load_rows adds for the rows start .. stop - 1: the visible ones.
NewKeys(s, start, stop) ==
    SelectSeq([k \in 1..(stop - start) |-> start + k],
              LAMBDA key : key <= Len(s.visible_rows) /\ s.visible_rows[key])

\* A _load_rows that does not bring stop down to the frame's height.
_load_rows_unclamped(s, stop) ==
    LET stop1 == IF stop > Height(s.df) THEN Height(s.df) ELSE stop
        start == s.loaded_rows
    IN  IF ~Ok(s) THEN s
        ELSE IF stop <= s.loaded_rows THEN s
        ELSE Notify([s EXCEPT !.rows = s.rows \o NewKeys(s, start, stop1),
                              !.loaded_rows = stop],
                    "information")

_load_rows(s, stop) ==
    LET stop1 == IF stop > Height(s.df) THEN Height(s.df) ELSE stop
        start == s.loaded_rows
        bad   == {i \in start..(stop1 - 1) : i >= Len(s.visible_rows)}
        first_bad == CHOOSE i \in bad : \A j \in bad : i <= j
    IN  IF ~Ok(s) THEN s
        ELSE IF stop1 <= s.loaded_rows THEN s
        ELSE IF bad # {}
             THEN Raise([s EXCEPT !.rows = s.rows \o NewKeys(s, start, first_bad)])
        ELSE IF \E key \in Range(NewKeys(s, start, stop1)) : key \in Range(s.rows)
             THEN Raise(s)
        ELSE Notify([s EXCEPT !.rows = s.rows \o NewKeys(s, start, stop1),
                              !.loaded_rows = stop1],
                    "information")

\* _highlight_rows, were it to colour the rows shown without loading up to
\* the last selected row.
_highlight_rows_without_load(s, clear) ==
    IF ~Ok(s) THEN s
    ELSE IF TRUE \notin Range(s.selected_rows) THEN s
    ELSE LET s1 == IF clear
                   THEN [s EXCEPT !.selected_rows = Repeat(FALSE, Height(s.df))]
                   ELSE s
         IN  IF \E key \in Range(s1.rows) : key > Len(s1.selected_rows)
             THEN Raise(s1)
             ELSE s1

_highlight_rows(s, clear) ==
    IF ~Ok(s) THEN s
    ELSE IF TRUE \notin Range(s.selected_rows) THEN s
    ELSE LET s1 == IF clear
                   THEN [s EXCEPT !.selected_rows = Repeat(FALSE, Height(s.df))]
                   ELSE s
             s2 == _load_rows(s1, _rindex(s1.selected_rows, TRUE) + 1)
         IN  IF Ok(s2) /\ \E key \in Range(s2.rows) : key > Len(s2.selected_rows)
             THEN Raise(s2)
             ELSE s2

_setup_columns(s) ==
    IF ~Ok(s) THEN s
    ELSE [s EXCEPT !.loaded_rows = 0,
                   !.rows = <<>>,
                   !.cursor_coordinate = [row |-> 0, column |-> 0],
                   !.columns = s.df.columns]

\* The stop of _setup_table: one past the INITIAL_BATCH_SIZE-th visible row,
\* or the frame's height when fewer rows are visible.
InitialStop(s) ==
    LET vis == {i \in 0..(Len(s.visible_rows) - 1) : At(s.visible_rows, i)}
        upto(i) == Cardinality({j \in vis : j <= i})
    IN  IF \E i \in vis : upto(i) >= INITIAL_BATCH_SIZE
        THEN (CHOOSE i \in vis : upto(i) = INITIAL_BATCH_SIZE) + 1
        ELSE Height(s.df)

_setup_table(s, reset) ==
    LET s1   == IF reset
                THEN [s EXCEPT !.df = s.dataframe,
                               !.loaded_rows = 0,
                               !.sorted_columns = <<>>,
                               !.selected_rows = Repeat(FALSE, Height(s.dataframe)),
                               !.visible_rows = Repeat(TRUE, Height(s.dataframe)),
                               !.fixed_rows = 0,
                               !.fixed_columns = 0]
                ELSE s
        stop == InitialStop(s1)
        s2   == _highlight_rows(_load_rows(_setup_columns(s1), stop), FALSE)
    IN  IF ~Ok(s) THEN s
        ELSE IF Ok(s2) /\ s2.cursor_coordinate.row < Len(s2.rows)
                       /\ s2.cursor_coordinate.column < Len(s2.columns)
             THEN move_cursor(s2, s2.cursor_coordinate.row, s2.cursor_coordinate.column)
             ELSE s2

---------------------------------------------------------------------------
(* History and undo.                                                       *)

History(s, description) ==
    [description |-> description,
     df |-> s.df,
     filename |-> s.filename,
     loaded_rows |-> s.loaded_rows,
     sorted_columns |-> s.sorted_columns,
     selected_rows |-> s.selected_rows,
     visible_rows |-> s.visible_rows,
     fixed_rows |-> s.fixed_rows,
     fixed_columns |-> s.fixed_columns,
     cursor_coordinate |-> s.cursor_coordinate]

\* The objects that .copy() of the three containers gives: new ones, which
\* nothing else holds.  used are the objects that exist.
copy_same_object(ids, used) == ids

copy(ids, used) ==
    LET Fresh(u) == CHOOSE n \in 0..Cardinality(u) :
                        n \notin u /\ \A m \in 0..(n - 1) : m \in u
        a == Fresh(used)
        b == Fresh(used \cup {a})
    IN  [sorted_columns |-> a, selected_rows |-> b,
         visible_rows |-> Fresh(used \cup {a, b})]

_add_history(s, description) ==
    IF ~Ok(s) THEN s
    ELSE [s EXCEPT !.histories = Append(s.histories, History(s, description))]

\* The fields _undo assigns from the popped entry; the assignment to
\* cursor_coordinate is validated (clamped) against the table as it is shown
\* at that moment.
Restored(s, history) ==
    [s EXCEPT !.histories = SubSeq(s.histories, 1, Len(s.histories) - 1),
              !.df = history.df,
              !.filename = history.filename,
              !.loaded_rows = history.loaded_rows,
              !.sorted_columns = history.sorted_columns,
              !.selected_rows = history.selected_rows,
              !.visible_rows = history.visible_rows,
              !.fixed_rows = history.fixed_rows,
              !.fixed_columns = history.fixed_columns,
              !.cursor_coordinate = Clamp(s, history.cursor_coordinate.row,
                                          history.cursor_coordinate.column)]

_undo(s) ==
    IF s.histories = <<>>
    THEN Outcome(Notify(s, "warning"), "nothing to undo")
    ELSE LET history == s.histories[Len(s.histories)]
         IN  Outcome(Notify(_setup_table(Restored(s, history), FALSE), "information"),
                     "done")

---------------------------------------------------------------------------
(* Freeze.                                                                 *)

\* The result of a dismissed modal screen: None, or the screen's value.
None == [none |-> TRUE]

_open_freeze_screen(s) ==
    Outcome([s EXCEPT !.modal = [NoModal EXCEPT !.kind = "freeze"]], "opened")

_do_freeze(s, result) ==
    LET s0 == [s EXCEPT !.modal = NoModal]
        s1 == _add_history(s0, "Pinned")
        s2 == IF result.fixed_rows > 0
              THEN [s1 EXCEPT !.fixed_rows = result.fixed_rows] ELSE s1
        s3 == IF result.fixed_columns > 0
              THEN [s2 EXCEPT !.fixed_columns = result.fixed_columns] ELSE s2
    IN  IF result.none THEN Outcome(s0, "cancelled")
        ELSE Outcome(Notify(s3, "information"), "done")

---------------------------------------------------------------------------
(* Delete and move.                                                        *)

\* A _delete_column that leaves sorted_columns alone.
_delete_column_keeps_key(s) ==
    LET col_idx == s.cursor_coordinate.column
        col_to_remove == At(s.df.columns, col_idx)
        s1 == _add_history(s, "Removed column")
        shown == col_to_remove \in Range(s.columns)
        s2 == [s1 EXCEPT !.columns = SelectSeq(s.columns, LAMBDA c : c # col_to_remove)]
        s3 == IF col_idx >= Len(s2.columns)
              THEN move_cursor(s2, s2.cursor_coordinate.row, Len(s2.columns) - 1)
              ELSE s2
        s5 == [s3 EXCEPT !.df = Drop(s3.df, col_to_remove)]
    IN  IF col_idx >= Width(s.df) THEN Outcome(s, "ignored")
        ELSE IF ~shown THEN Raise(s1)
        ELSE Outcome(Notify(s5, "information"), "done")

_delete_column(s) ==
    LET col_idx == s.cursor_coordinate.column
        col_to_remove == At(s.df.columns, col_idx)
        s1 == _add_history(s, "Removed column")
        \* remove_column(col_to_remove) raises ColumnDoesNotExist for a key not shown
        shown == col_to_remove \in Range(s.columns)
        s2 == [s1 EXCEPT !.columns = SelectSeq(s.columns, LAMBDA c : c # col_to_remove)]
        s3 == IF col_idx >= Len(s2.columns)
              THEN move_cursor(s2, s2.cursor_coordinate.row, Len(s2.columns) - 1)
              ELSE s2
        s4 == IF DictHas(s3.sorted_columns, col_to_remove)
              THEN [s3 EXCEPT !.sorted_columns = DictDel(s3.sorted_columns, col_to_remove)]
              ELSE s3
        s5 == [s4 EXCEPT !.df = Drop(s4.df, col_to_remove)]
    IN  IF col_idx >= Width(s.df) THEN Outcome(s, "ignored")
        ELSE IF ~shown THEN Raise(s1)
        ELSE Outcome(Notify(s5, "information"), "done")

\* filter_expr of _delete_row: False at the rows to delete.
DeleteMask(s) ==
    IF CountTrue(s.selected_rows) > 0
    THEN [i \in 1..Height(s.df) |-> ~s.selected_rows[i]]
    ELSE [i \in 1..Height(s.df) |-> i # cursor_row_key(s)]

_delete_row(s) ==
    LET by_selection == CountTrue(s.selected_rows) > 0
        \* filter_expr[i] = False raises IndexError past the frame's height
        index_error ==
            IF by_selection
            THEN \E i \in DOMAIN s.selected_rows : s.selected_rows[i] /\ i > Height(s.df)
            ELSE cursor_row_key(s) > Height(s.df)
        filter_expr == DeleteMask(s)
        s1 == _add_history(s, IF by_selection THEN "Deleted selected rows"
                              ELSE "Deleted row")
        old_row_indices == {i \in 0..(Height(s.df) - 1) : At(filter_expr, i)}
        s2 == [s1 EXCEPT !.df = FilterMask(s.df, filter_expr),
                         !.selected_rows = KeepIdx(s.selected_rows, old_row_indices, 0),
                         !.visible_rows = KeepIdx(s.visible_rows, old_row_indices, 0)]
    IN  IF ~by_selection /\ ~HasCursorCell(s) THEN Raise(s)
        ELSE IF index_error THEN Raise(s)
        ELSE Outcome(Notify(_setup_table(s2, FALSE), "information"), "done")

\* The shown keys with key_a and key_b exchanged (the swap of two entries of
\* _column_locations or _row_locations).
SwapKeys(keys, key_a, key_b) ==
    [k \in DOMAIN keys |-> IF keys[k] = key_a THEN key_b
                           ELSE IF keys[k] = key_b THEN key_a ELSE keys[k]]

_move_column(s, direction) ==
    LET row_idx == s.cursor_coordinate.row
        col_idx == s.cursor_coordinate.column
        col_key == cursor_column_key(s)
        swap_idx == IF direction = "left" THEN col_idx - 1 ELSE col_idx + 1
        swap_key == At(s.df.columns, swap_idx)
        s1 == _add_history(s, "Moved column")
        s2 == [s1 EXCEPT !.columns = SwapKeys(s.columns, col_key, swap_key)]
        s3 == move_cursor(s2, row_idx, swap_idx)
        s4 == [s3 EXCEPT !.df = SelectSwapped(s.df, col_idx, swap_idx)]
    IN  IF ~HasCursorCell(s) THEN Raise(s)
        ELSE IF direction = "left" /\ col_idx <= 0
             THEN Outcome(Notify(s, "warning"), "boundary")
        ELSE IF direction = "right" /\ col_idx >= Len(s.columns) - 1
             THEN Outcome(Notify(s, "warning"), "boundary")
        ELSE IF col_idx >= Width(s.df) \/ swap_idx >= Width(s.df) THEN Raise(s)
        ELSE Outcome(Notify(s4, "information"), "done")

_move_row(s, direction) ==
    LET row_idx == s.cursor_coordinate.row
        col_idx == s.cursor_coordinate.column
        swap_idx == IF direction = "up" THEN row_idx - 1 ELSE row_idx + 1
        row_key == At(s.rows, row_idx)
        swap_key == At(s.rows, swap_idx)
        s1 == _add_history(s, "Moved row")
        s2 == [s1 EXCEPT !.rows = SwapKeys(s.rows, row_key, swap_key)]
        s3 == move_cursor(s2, swap_idx, col_idx)
        rid == row_key - 1
        swap_rid == swap_key - 1
        first == Min(rid, swap_rid)
        second == Max(rid, swap_rid)
        s4 == [s3 EXCEPT !.df = ConcatSwapped(s.df, first, second)]
    IN  IF direction = "up" /\ row_idx <= 0
        THEN Outcome(Notify(s, "warning"), "boundary")
        ELSE IF direction = "down" /\ row_idx >= Len(s.rows) - 1
             THEN Outcome(Notify(s, "warning"), "boundary")
        \* coordinate_to_cell_key((row_idx, 0)) raises CellDoesNotExist
        ELSE IF ~ValidCoordinate(s, row_idx, 0) \/ ~ValidCoordinate(s, swap_idx, 0)
             THEN Raise(s)
        ELSE Outcome(Notify(s4, "information"), "done")

---------------------------------------------------------------------------
(* Sort.                                                                   *)

\* A toggle that assigns the new flag to a present key where it stands
\* (sorted_columns[col] = descending without the del).
SortKeysAfter_in_place(sorted, col_to_sort, descending) ==
    IF DictGet(sorted, col_to_sort) = "None"
    THEN DictSet(sorted, col_to_sort, descending)
    ELSE [i \in DOMAIN sorted |->
             IF sorted[i].col = col_to_sort
             THEN [col |-> col_to_sort, desc |-> descending] ELSE sorted[i]]

\* sorted_columns after _sort_by_column changed it: a new key is added at
\* the end, a present key is deleted and added again with the new flag.
SortKeysAfter(sorted, col_to_sort, descending) ==
    IF DictGet(sorted, col_to_sort) = "None"
    THEN DictSet(sorted, col_to_sort, descending)
    ELSE DictSet(DictDel(sorted, col_to_sort), col_to_sort, descending)

\* A sort on the toggled column alone, the older keys forgotten.
SortResultOrders_last_key_only(s, descending) ==
    LET col_idx == s.cursor_coordinate.column
    IN  IF col_idx >= Width(s.df) THEN {<<>>}
        ELSE SortOrders(s.df, <<[col |-> At(s.df.columns, col_idx),
                                 desc |-> descending]>>)

\* The orders the sort of _sort_by_column may return.
SortResultOrders(s, descending) ==
    LET col_idx == s.cursor_coordinate.column
    IN  IF col_idx >= Width(s.df) THEN {<<>>}
        ELSE SortOrders(s.df, SortKeysAfter(s.sorted_columns,
                                            At(s.df.columns, col_idx), descending))

\* selected_rows / visible_rows after the sort: [flags[i] for i in old_row_indices]
Permuted(flags, old_row_indices) ==
    [i \in DOMAIN old_row_indices |-> At(flags, old_row_indices[i])]

\* A _sort_by_column without the test for the same flag: it sorts again.
_sort_by_column_resort(s, descending, old_row_indices) ==
    LET col_idx == s.cursor_coordinate.column
        col_to_sort == At(s.df.columns, col_idx)
        s1 == _add_history(s, "Sorted on column")
        s2 == [s1 EXCEPT !.sorted_columns =
                             SortKeysAfter(s.sorted_columns, col_to_sort, descending)]
        s3 == [s2 EXCEPT !.selected_rows = Permuted(s.selected_rows, old_row_indices),
                         !.visible_rows = Permuted(s.visible_rows, old_row_indices),
                         !.df = Reordered(s.df, old_row_indices),
                         !.old_row_indices = old_row_indices]
        s4 == _setup_table(s3, FALSE)
    IN  IF col_idx >= Width(s.df) THEN Outcome(s, "ignored")
        ELSE Outcome(move_cursor(s4, 0, col_idx), "done")

\* A _sort_by_column that reorders selected_rows and leaves visible_rows.
_sort_by_column_visible_kept(s, descending, old_row_indices) ==
    LET col_idx == s.cursor_coordinate.column
        col_to_sort == At(s.df.columns, col_idx)
        old_desc == DictGet(s.sorted_columns, col_to_sort)
        s1 == _add_history(s, "Sorted on column")
        s2 == [s1 EXCEPT !.sorted_columns =
                             SortKeysAfter(s.sorted_columns, col_to_sort, descending)]
        s3 == [s2 EXCEPT !.selected_rows = Permuted(s.selected_rows, old_row_indices),
                         !.df = Reordered(s.df, old_row_indices),
                         !.old_row_indices = old_row_indices]
        s4 == _setup_table(s3, FALSE)
    IN  IF col_idx >= Width(s.df) THEN Outcome(s, "ignored")
        ELSE IF old_desc = (IF descending THEN "True" ELSE "False")
             THEN Outcome(Notify(s, "warning"), "already sorted")
        ELSE Outcome(move_cursor(s4, 0, col_idx), "done")

\* old_row_indices is the order the engine returned.
_sort_by_column(s, descending, old_row_indices) ==
    LET col_idx == s.cursor_coordinate.column
        col_to_sort == At(s.df.columns, col_idx)
        old_desc == DictGet(s.sorted_columns, col_to_sort)
        s1 == _add_history(s, "Sorted on column")
        s2 == [s1 EXCEPT !.sorted_columns =
                             SortKeysAfter(s.sorted_columns, col_to_sort, descending)]
        s3 == [s2 EXCEPT !.selected_rows = Permuted(s.selected_rows, old_row_indices),
                         !.visible_rows = Permuted(s.visible_rows, old_row_indices),
                         !.df = Reordered(s.df, old_row_indices),
                         !.old_row_indices = old_row_indices]
        s4 == _setup_table(s3, FALSE)
    IN  IF col_idx >= Width(s.df) THEN Outcome(s, "ignored")
        ELSE IF old_desc = (IF descending THEN "True" ELSE "False")
             THEN Outcome(Notify(s, "warning"), "already sorted")
        ELSE Outcome(move_cursor(s4, 0, col_idx), "done")

---------------------------------------------------------------------------
(* Edit.                                                                   *)

_edit_cell(s) ==
    LET row_key == cursor_row_key(s)
        row_idx == row_key - 1
        col_idx == s.cursor_coordinate.column
        s1 == _add_history(s, "Edited cell")
    IN  IF ~HasCursorCell(s) THEN Raise(s)
        ELSE IF row_idx >= Height(s.df) \/ col_idx >= Width(s.df)
             THEN Outcome(s, "ignored")
        ELSE Outcome([s1 EXCEPT !.modal = [kind |-> "edit", row_key |-> row_key,
                                           col_idx |-> col_idx]],
                     "opened")

\* result: None, or [row_key, col_idx, new_value] as EditCellScreen returns it.
_do_edit_cell(s, result) ==
    LET s0 == [s EXCEPT !.modal = NoModal]
        row_idx == result.row_key - 1
        s1 == [s0 EXCEPT !.df = WithCell(s.df, row_idx, result.col_idx, result.new_value)]
    IN  IF result.none THEN Outcome(s0, "cancelled")
        ELSE Outcome(Notify(s1, "information"), "done")

---------------------------------------------------------------------------
(* Search and selection.                                                   *)

\* df.with_row_index("__rid__"), filtered by visible_rows when a row is
\* hidden: the 0-based row indices left, in order.
VisibleRids(s) ==
    IF FALSE \in Range(s.visible_rows)
    THEN SelectSeq([i \in 1..Height(s.df) |-> i - 1], LAMBDA rid : At(s.visible_rows, rid))
    ELSE [i \in 1..Height(s.df) |-> i - 1]

\* df_rid.filter(self.visible_rows) raises for a mask of another length.
VisibleFilterRaises(s) ==
    FALSE \in Range(s.visible_rows) /\ Len(s.visible_rows) # Height(s.df)

\* A cell matches a search term: a null for the term NULL, else the value.
CellMatches(cell, term) == cell = term

_search_column(s, all_columns) ==
    LET row_idx == s.cursor_coordinate.row
        col_idx == s.cursor_coordinate.column
    IN  IF col_idx >= Width(s.df) THEN Outcome(Notify(s, "error"), "invalid column")
        \* df.item(row_idx, col_idx) raises past the frame's height
        ELSE IF row_idx >= Height(s.df) THEN Raise(s)
        ELSE Outcome([s EXCEPT !.modal = [kind |-> IF all_columns THEN "search all"
                                                   ELSE "search",
                                          row_key |-> 0, col_idx |-> col_idx]],
                     "opened")

_search_single_column(s, term, col_name) ==
    LET c == ColIndex(s.df, col_name)
        matches == {rid \in Range(VisibleRids(s)) : CellMatches(Item(s.df, rid, c), term)}
        s1 == _add_history(s, "Searched column")
        s2 == [s1 EXCEPT !.selected_rows =
                   [i \in DOMAIN s.selected_rows |->
                        IF (i - 1) \in matches THEN TRUE ELSE s.selected_rows[i]]]
    IN  IF VisibleFilterRaises(s) THEN Raise(s)
        ELSE IF matches = {} THEN Outcome(Notify(s, "warning"), "no match")
        ELSE IF \E m \in matches : m >= Len(s.selected_rows) THEN Raise(s1)
        ELSE Outcome(Notify(_highlight_rows(s2, FALSE), "information"), "done")

_search_all_columns(s, term) ==
    LET matches == {rid \in Range(VisibleRids(s)) :
                       \E c \in 0..(Width(s.df) - 1) : CellMatches(Item(s.df, rid, c), term)}
        max_rid == CHOOSE m \in matches : \A n \in matches : n <= m
        s1 == _load_rows(s, max_rid + 1)
        s2 == _add_history(s1, "Searched all columns")
    IN  IF VisibleFilterRaises(s) THEN Raise(s)
        ELSE IF matches = {} THEN Outcome(Notify(s, "warning"), "no match")
        ELSE Outcome(Notify(s2, "information"), "done")

\* result: None, or [term, col_name] with col_name "" for all columns.
_do_search_column(s, result) ==
    LET s0 == [s EXCEPT !.modal = NoModal]
    IN  IF result.none THEN Outcome(s0, "cancelled")
        ELSE IF result.col_name # "" THEN _search_single_column(s0, result.term, result.col_name)
        ELSE _search_all_columns(s0, result.term)

_search_with_cell_value(s) ==
    LET row_idx == cursor_row_key(s) - 1
        col_idx == s.cursor_coordinate.column
    IN  IF ~HasCursorCell(s) THEN Raise(s)
        ELSE IF row_idx >= Height(s.df) \/ col_idx >= Width(s.df) THEN Raise(s)
        ELSE _do_search_column(s, [none |-> FALSE,
                                   term |-> Item(s.df, row_idx, col_idx),
                                   col_name |-> At(s.df.columns, col_idx)])

_toggle_selected_rows(s, current_row) ==
    LET s1 == _add_history(s, "Toggled row selection")
        cursor_row_idx == cursor_row_key(s) - 1
        s2 == IF current_row
              THEN [s1 EXCEPT !.selected_rows[cursor_row_idx + 1] =
                                  ~s.selected_rows[cursor_row_idx + 1]]
              ELSE [s1 EXCEPT !.selected_rows =
                                  [i \in DOMAIN s.selected_rows |-> ~s.selected_rows[i]]]
        s3 == IF CountTrue(s2.selected_rows) > 0 THEN Notify(s2, "information") ELSE s2
    IN  IF current_row /\ ~HasCursorCell(s) THEN Raise(s1)
        ELSE IF current_row /\ cursor_row_idx >= Len(s.selected_rows) THEN Raise(s1)
        ELSE Outcome(_highlight_rows(s3, FALSE), "done")

_clear_selected_rows(s) ==
    LET s1 == _add_history(s, "Cleared all selected rows")
    IN  IF CountTrue(s.selected_rows) = 0
        THEN Outcome(Notify(s, "warning"), "nothing selected")
        ELSE Outcome(Notify(_highlight_rows(s1, TRUE), "information"), "done")

---------------------------------------------------------------------------
(* Filter.                                                                 *)

_filter_selected_rows(s) ==
    LET s1 == _add_history(s, "Filtered to selected rows")
        new_df == FilterMask(s.df, s.selected_rows)
        s2 == [s1 EXCEPT !.df = new_df,
                         !.selected_rows = Repeat(TRUE, Height(new_df))]
    IN  IF CountTrue(s.selected_rows) = 0
        THEN Outcome(Notify(s, "warning"), "nothing selected")
        \* df.filter(mask) raises for a mask of another length
        ELSE IF Len(s.selected_rows) # Height(s.df) THEN Raise(s1)
        ELSE Outcome(Notify(_setup_table(s2, FALSE), "information"), "done")

\* A filter expression: a boolean list ([kind "mask"]), or a predicate on a
\* column ([kind "is_null" | "eq" | "gt", col, val]).  A comparison with a
\* null is null, which filter drops.
RowSatisfies(d, rid, expr) ==
    LET cell == Item(d, rid, ColIndex(d, expr.col))
    IN  IF expr.kind = "is_null" THEN cell = NULL
        ELSE IF expr.kind = "eq" THEN cell # NULL /\ cell = expr.val
        ELSE cell # NULL /\ cell > expr.val

\* df_with_rid.filter(expr) raises: a list of another length than the frame
\* it filters, or a column the frame does not have.
FilterRaises(d, rids, expr) ==
    IF expr.kind = "mask" THEN Len(expr.mask) # Len(rids)
    ELSE ColIndex(d, expr.col) < 0

\* The row indices of df_filtered.
Matched(d, rids, expr) ==
    IF expr.kind = "mask"
    THEN {rids[p] : p \in {q \in DOMAIN rids : expr.mask[q]}}
    ELSE {rid \in Range(rids) : RowSatisfies(d, rid, expr)}

\* The loop of _do_filter over range(len(visible_rows)): every row not in
\* filtered_row_indices is marked invisible and unselected, up to the row
\* upto (exclusive).
Narrowed(s, filtered_row_indices, upto) ==
    [s EXCEPT !.visible_rows =
                  [i \in DOMAIN s.visible_rows |->
                       IF (i - 1) \notin filtered_row_indices /\ (i - 1) < upto
                       THEN FALSE ELSE s.visible_rows[i]],
              !.selected_rows =
                  [i \in DOMAIN s.selected_rows |->
                       IF (i - 1) \notin filtered_row_indices /\ (i - 1) < upto
                       THEN FALSE ELSE s.selected_rows[i]]]

\* result: None, or [expr] as FilterScreen and _filter_rows give it.
_do_filter(s, result) ==
    LET s0 == [s EXCEPT !.modal = NoModal]
        rids == VisibleRids(s)
        filtered_row_indices == Matched(s.df, rids, result.expr)
        s1 == _add_history(s0, "Filtered by expression")
        \* selected_rows[rid] = False raises IndexError past the list
        bad == {rid \in 0..(Len(s.visible_rows) - 1) :
                   rid \notin filtered_row_indices /\ rid >= Len(s.selected_rows)}
        first_bad == CHOOSE rid \in bad : \A other \in bad : rid <= other
    IN  IF result.none THEN Outcome(s0, "cancelled")
        ELSE IF VisibleFilterRaises(s) THEN Raise(s0)
        ELSE IF FilterRaises(s.df, rids, result.expr) THEN Raise(s0)
        ELSE IF filtered_row_indices = {} THEN Outcome(Notify(s0, "warning"), "no match")
        ELSE IF bad # {} THEN Raise(Narrowed(s1, filtered_row_indices, first_bad + 1))
        ELSE Outcome(Notify(_setup_table(Narrowed(s1, filtered_row_indices,
                                                  Len(s.visible_rows)), FALSE),
                            "information"),
                     "done")

_filter_rows(s) ==
    LET row_idx == cursor_row_key(s) - 1
        col_idx == s.cursor_coordinate.column
        cell_value == Item(s.df, row_idx, col_idx)
        col == At(s.df.columns, col_idx)
    IN  IF TRUE \in Range(s.selected_rows)
        THEN _do_filter(s, [none |-> FALSE,
                            expr |-> [kind |-> "mask", mask |-> s.selected_rows]])
        ELSE IF ~HasCursorCell(s) THEN Raise(s)
        ELSE IF row_idx >= Height(s.df) \/ col_idx >= Width(s.df) THEN Raise(s)
        ELSE IF cell_value = NULL
             THEN _do_filter(s, [none |-> FALSE,
                                 expr |-> [kind |-> "is_null", col |-> col, val |-> NULL]])
        ELSE _do_filter(s, [none |-> FALSE,
                            expr |-> [kind |-> "eq", col |-> col, val |-> cell_value]])

_open_filter_screen(s) ==
    LET row_idx == cursor_row_key(s) - 1
        col_idx == s.cursor_coordinate.column
    IN  IF ~HasCursorCell(s) THEN Raise(s)
        ELSE IF row_idx >= Height(s.df) \/ col_idx >= Width(s.df) THEN Raise(s)
        ELSE Outcome([s EXCEPT !.modal = [kind |-> "filter", row_key |-> 0,
                                          col_idx |-> col_idx]],
                     "opened")

---------------------------------------------------------------------------
(* Save.                                                                   *)

_save_to_file(s) ==
    Outcome([s EXCEPT !.modal = [NoModal EXCEPT !.kind = "save"]], "opened")

\* A save that leaves self.dataframe alone, as C5 reads in the specification.
_do_save_keeps_original(s, name, write_ok) ==
    IF write_ok
    THEN Outcome(Notify([s EXCEPT !.files = s.files \cup {name},
                                  !.filename = name],
                        "information"),
                 "saved")
    ELSE Raise(Notify(s, "error"))

\* A save that takes the new filename before it writes.
_do_save_filename_first(s, name, write_ok) ==
    IF write_ok
    THEN Outcome(Notify([s EXCEPT !.files = s.files \cup {name},
                                  !.dataframe = s.df,
                                  !.filename = name],
                        "information"),
                 "saved")
    ELSE Raise(Notify([s EXCEPT !.filename = name], "error"))

\* write_ok: whether the engine's write succeeds.
_do_save(s, name, write_ok) ==
    IF write_ok
    THEN Outcome(Notify([s EXCEPT !.files = s.files \cup {name},
                                  !.dataframe = s.df,
                                  !.filename = name],
                        "information"),
                 "saved")
    ELSE Raise(Notify(s, "error"))

\* A handler of the filename dialog that writes without asking.
_on_save_file_screen_without_confirm(s, result, write_ok) ==
    LET s0 == [s EXCEPT !.modal = NoModal]
    IN  IF result.none THEN Outcome(s0, "cancelled")
        ELSE _do_save(s0, result.filename, write_ok)

\* result: None, or [filename] as SaveFileScreen returns it.
_on_save_file_screen(s, result, write_ok) ==
    LET s0 == [s EXCEPT !.modal = NoModal]
    IN  IF result.none THEN Outcome(s0, "cancelled")
        ELSE IF result.filename \in s.files
             THEN Outcome([s0 EXCEPT !.pending_filename = result.filename,
                                     !.modal = [NoModal EXCEPT !.kind = "confirm"]],
                          "confirm")
        ELSE _do_save(s0, result.filename, write_ok)

_on_overwrite_screen(s, should_overwrite, write_ok) ==
    LET s0 == [s EXCEPT !.modal = NoModal]
    IN  IF should_overwrite THEN _do_save(s0, s.pending_filename, write_ok)
        ELSE Outcome([s0 EXCEPT !.modal = [NoModal EXCEPT !.kind = "save"]], "declined")

---------------------------------------------------------------------------
(* The expression compiler.  A python str is a list of characters, each a  *)
(* string of length one; re patterns are matched on that list as the re    *)
(* module matches them: left to right, the alternatives in their order,    *)
(* the quantifiers greedy.                                                 *)

Digit == {"0", "1", "2", "3", "4", "5", "6", "7", "8", "9"}

\* The class \w of re.
Word ==
    {"_", "0", "1", "2", "3", "4", "5", "6", "7", "8", "9",
     "a", "b", "c", "d", "e", "f", "g", "h", "i", "j", "k", "l", "m", "n", "o",
     "p", "q", "r", "s", "t", "u", "v", "w", "x", "y", "z", "A", "B", "C", "D",
     "E", "F", "G", "H", "I", "J", "K", "L", "M", "N", "O", "P", "Q", "R", "S",
     "T", "U", "V", "W", "X", "Y", "Z"}

\* The characters of a column name.
Spelling ==
    ("age" :> <<"a", "g", "e">>) @@ ("name" :> <<"n", "a", "m", "e">>)
    @@ ("_id" :> <<"_", "i", "d">>)

\* The text from the 1-based position i on.
From(w, i) == SubSeq(w, i, Len(w))

\* w.startswith(prefix)
StartsWith(w, prefix) ==
    Len(w) >= Len(prefix) /\ SubSeq(w, 1, Len(prefix)) = prefix

\* prefix in w
RECURSIVE Contains(_, _)
Contains(w, part) ==
    IF Len(w) < Len(part) THEN FALSE
    ELSE StartsWith(w, part) \/ Contains(Tail(w), part)

\* How many characters from position i on are in the class: the greedy X*.
RECURSIVE Span(_, _, _)
Span(w, i, class) ==
    IF i > Len(w) \/ w[i] \notin class THEN 0 ELSE 1 + Span(w, i + 1, class)

\* How many characters from position i on differ from q: the greedy [^q]*.
RECURSIVE SpanNot(_, _, _)
SpanNot(w, i, q) ==
    IF i > Len(w) \/ w[i] = q THEN 0 ELSE 1 + SpanNot(w, i + 1, q)

\* The length of a match of q[^q]*q at the start of w, 0 if there is none.
QuotedLen(w, q) ==
    IF w[1] # q THEN 0
    ELSE LET n == SpanNot(w, 2, q)
         IN  IF n + 2 <= Len(w) THEN n + 2 ELSE 0

\* The length of a match of \d+\.?\d* at the start of w, 0 if there is none.
NumberLen(w) ==
    LET n == Span(w, 1, Digit)
        dot == IF n + 1 <= Len(w) /\ w[n + 1] = "." THEN 1 ELSE 0
    IN  IF n = 0 THEN 0 ELSE n + dot + Span(w, n + dot + 1, Digit)

\* int(digits)
RECURSIVE ToInt(_)
ToInt(digits) ==
    LET value == ("0" :> 0) @@ ("1" :> 1) @@ ("2" :> 2) @@ ("3" :> 3) @@ ("4" :> 4)
                 @@ ("5" :> 5) @@ ("6" :> 6) @@ ("7" :> 7) @@ ("8" :> 8) @@ ("9" :> 9)
    IN  IF digits = <<>> THEN 0
        ELSE 10 * ToInt(SubSeq(digits, 1, Len(digits) - 1))
             + value[digits[Len(digits)]]

\* str.isdigit()
IsDigits(w) == w # <<>> /\ \A i \in DOMAIN w : w[i] \in Digit

\* The one-character operators of token_pattern.
OneCharOperators == {"+", "-", "*", "/", "%", "<", ">", "=", "(", ")"}

\* The length of the token that token_pattern matches at the start of the
\* text w, which is not empty: the first alternative that matches.
TokenLen(w) ==
    LET TwoCharOperators ==
            {<<"&", "&">>, <<"|", "|">>, <<"<", "=">>, <<">", "=">>, <<"!", "=">>,
             <<"=", "=">>}
    IN
    IF StartsWith(w, <<"$", "_">>) THEN 2
    ELSE IF w[1] = "$" /\ Span(w, 2, Digit) > 0 THEN 1 + Span(w, 2, Digit)
    ELSE IF w[1] = "$" /\ Span(w, 2, Word) > 0 THEN 1 + Span(w, 2, Word)
    ELSE IF QuotedLen(w, "'") > 0 THEN QuotedLen(w, "'")
    ELSE IF QuotedLen(w, "\"") > 0 THEN QuotedLen(w, "\"")
    ELSE IF Len(w) >= 2 /\ SubSeq(w, 1, 2) \in TwoCharOperators THEN 2
    ELSE IF w[1] \in OneCharOperators THEN 1
    ELSE IF NumberLen(w) > 0 THEN NumberLen(w)
    ELSE IF Span(w, 1, Word) > 0 THEN Span(w, 1, Word)
    ELSE 1

\* findall for a token_pattern without its last alternative, the single
\* character: a character no alternative matches is skipped.
RECURSIVE findall_without_any_character(_)
findall_without_any_character(w) ==
    IF w = <<>> THEN <<>>
    ELSE LET n == TokenLen(w)
             matched == \/ n > 1
                        \/ w[1] \in OneCharOperators
                        \/ w[1] \in Word
         IN  (IF matched THEN <<SubSeq(w, 1, n)>> ELSE <<>>)
             \o findall_without_any_character(From(w, n + 1))

\* re.findall(token_pattern, expression)
RECURSIVE findall(_)
findall(w) ==
    IF w = <<>> THEN <<>>
    ELSE LET n == TokenLen(w)
         IN  <<SubSeq(w, 1, n)>> \o findall(From(w, n + 1))

\* " ".join(parts)
RECURSIVE Join(_)
Join(parts) ==
    IF parts = <<>> THEN <<>>
    ELSE IF Len(parts) = 1 THEN parts[1]
    ELSE parts[1] \o <<" ">> \o Join(Tail(parts))

\* f"pl.col('{col_name}')"
PlCol(col_name) ==
    <<"p", "l", ".", "c", "o", "l", "(", "'">> \o Spelling[col_name] \o <<"'", ")">>

\* The column a reference names, as both compilers look it up: the current
\* column for _, the column at the 1-based index for digits, the column of
\* that name otherwise; "" when the lookup raises ValueError.
ReferredColumn(col_ref, d, current_col_idx) ==
    IF col_ref = <<"_">> THEN At(d.columns, current_col_idx)
    ELSE IF IsDigits(col_ref)
         THEN LET col_idx == ToInt(col_ref) - 1
              IN  IF col_idx < 0 \/ col_idx >= Width(d) THEN ""
                  ELSE At(d.columns, col_idx)
    ELSE IF \E c \in Range(d.columns) : Spelling[c] = col_ref
         THEN CHOOSE c \in Range(d.columns) : Spelling[c] = col_ref
    ELSE ""

\* What a compiler returns: the text, or the exception it raises.
Returns(text) == [ok |-> TRUE, text |-> text]
Raises(error) == [ok |-> FALSE, error |-> error]

\* One token of parse_filter_expression converted; <<>> when it raises.
ConvertedToken(token, d, current_col_idx) ==
    IF token[1] = "$"
    THEN LET col_name == ReferredColumn(Tail(token), d, current_col_idx)
         IN  IF col_name = "" THEN <<>> ELSE PlCol(col_name)
    ELSE IF token = <<"&", "&">> THEN <<")", " ", "&", " ", "(">>
    ELSE IF token = <<"|", "|">> THEN <<")", " ", "|", " ", "(">>
    ELSE token

\* main.py parse_filter_expression
parse_filter_expression(expr, d, current_col_idx) ==
    LET tokens == findall(expr)
        converted_tokens ==
            [i \in DOMAIN tokens |-> ConvertedToken(tokens[i], d, current_col_idx)]
    IN  IF tokens = <<>> THEN Raises("ValueError")
        ELSE IF \E i \in DOMAIN tokens : converted_tokens[i] = <<>>
             THEN Raises("ValueError")
        ELSE Returns(<<"(">> \o Join(converted_tokens) \o <<")">>)

\* The length of a match of \$(_|#|\d+|[a-zA-Z_]\w*) at the start of w, 0
\* if there is none: the alternatives of the group in their order.
ColumnRefLen(w) ==
    IF Len(w) < 2 \/ w[1] # "$" THEN 0
    ELSE IF w[2] = "_" THEN 2
    ELSE IF w[2] = "#" THEN 2
    ELSE IF Span(w, 2, Digit) > 0 THEN 1 + Span(w, 2, Digit)
    ELSE IF w[2] \in Word \ Digit THEN 2 + Span(w, 3, Word)
    ELSE 0

\* replace_column_ref of parse_polars_expression; <<>> when it raises.
replace_column_ref(col_ref, d, current_col_idx) ==
    IF col_ref = <<"#">>
    THEN <<"(", "p", "l", ".", "c", "o", "l", "(", "'", "_", "_", "r", "i", "d",
           "x", "_", "_", "'", ")", " ", "+", " ", "1", ")">>
    ELSE LET col_name == ReferredColumn(col_ref, d, current_col_idx)
         IN  IF col_name = "" THEN <<>> ELSE PlCol(col_name)

\* re.sub(pattern, replace_column_ref, expression)
RECURSIVE sub(_, _, _)
sub(w, d, current_col_idx) ==
    IF w = <<>> THEN Returns(<<>>)
    ELSE LET n == ColumnRefLen(w)
             rest == sub(From(w, Max(n, 1) + 1), d, current_col_idx)
             replaced == replace_column_ref(SubSeq(w, 2, n), d, current_col_idx)
         IN  IF n > 0 /\ replaced = <<>> THEN Raises("ValueError")
             ELSE IF ~rest.ok THEN rest
             ELSE IF n = 0 THEN Returns(<<w[1]>> \o rest.text)
             ELSE Returns(replaced \o rest.text)

\* common.py parse_polars_expression
parse_polars_expression(expr, d, current_col_idx) ==
    IF "$" \notin Range(expr)
    THEN IF Contains(expr, <<"p", "l", ".">>) THEN Returns(expr)
         ELSE Returns(<<"p", "l", ".", "l", "i", "t", "(">> \o expr \o <<")">>)
    ELSE sub(expr, d, current_col_idx)

---------------------------------------------------------------------------
(* eval(expr_str, {"pl": pl}) and the filter by the resulting predicate:   *)
(* python's grammar for the operators of a filter expression.  Comparisons *)
(* bind weaker than | which binds weaker than &; a chain of comparisons    *)
(* asks for the truth value of a polars expression, which raises.  The     *)
(* value of the predicate for one row is computed; a boolean is 0 or 1.    *)

\* The value of a string literal (its rank, as for the cells).
StrValue(chars) ==
    IF chars = <<"A", "l", "e", "x">> THEN 7
    ELSE IF chars = <<"B", "o">> THEN 8
    ELSE 9

\* The length of pl.col('name') at the start of w, 0 if w does not start
\* with it.
PlColLen(w) ==
    IF ~StartsWith(w, <<"p", "l", ".", "c", "o", "l", "(", "'">>) THEN 0
    ELSE LET n == SpanNot(w, 9, "'")
         IN  IF n + 10 <= Len(w) /\ w[n + 9] = "'" /\ w[n + 10] = ")"
             THEN n + 10 ELSE 0

\* The tokens of a python expression.
RECURSIVE PyLex(_)
PyLex(w) ==
    IF w = <<>> THEN <<>>
    ELSE IF w[1] = " " THEN PyLex(Tail(w))
    ELSE IF PlColLen(w) > 0
         THEN LET chars == SubSeq(w, 9, PlColLen(w) - 2)
                  names == {c \in DOMAIN Spelling : Spelling[c] = chars}
              IN  <<IF names = {} THEN [t |-> "bad", v |-> 0, s |-> ""]
                    ELSE [t |-> "col", v |-> 0, s |-> CHOOSE c \in names : TRUE]>>
                  \o PyLex(From(w, PlColLen(w) + 1))
    ELSE IF Span(w, 1, Digit) > 0
         THEN <<[t |-> "num", v |-> ToInt(SubSeq(w, 1, Span(w, 1, Digit))), s |-> ""]>>
              \o PyLex(From(w, Span(w, 1, Digit) + 1))
    ELSE IF QuotedLen(w, "'") > 0
         THEN <<[t |-> "str", v |-> StrValue(SubSeq(w, 2, QuotedLen(w, "'") - 1)), s |-> ""]>>
              \o PyLex(From(w, QuotedLen(w, "'") + 1))
    ELSE IF Len(w) >= 2 /\ SubSeq(w, 1, 2) \in {<<"=", "=">>, <<"!", "=">>,
                                                 <<"<", "=">>, <<">", "=">>}
         THEN <<[t |-> "op", v |-> 0,
                 s |-> IF w[1] = "=" THEN "==" ELSE IF w[1] = "!" THEN "!="
                       ELSE IF w[1] = "<" THEN "<=" ELSE ">="]>>
              \o PyLex(From(w, 3))
    ELSE IF w[1] \in {"(", ")", "&", "|", "<", ">"}
         THEN <<[t |-> "op", v |-> 0, s |-> w[1]]>> \o PyLex(Tail(w))
    ELSE IF Span(w, 1, Word) > 0
         THEN <<[t |-> "name", v |-> 0, s |-> ""]>> \o PyLex(From(w, Span(w, 1, Word) + 1))
    ELSE <<[t |-> "bad", v |-> 0, s |-> ""]>> \o PyLex(Tail(w))

\* a & b and a | b on naturals, bit by bit.
RECURSIVE BitAnd(_, _)
BitAnd(a, b) ==
    IF a = 0 \/ b = 0 THEN 0
    ELSE (a % 2) * (b % 2) + 2 * BitAnd(a \div 2, b \div 2)

RECURSIVE BitOr(_, _)
BitOr(a, b) ==
    IF a = 0 THEN b ELSE IF b = 0 THEN a
    ELSE Max(a % 2, b % 2) + 2 * BitOr(a \div 2, b \div 2)

Compare(a, op, b) ==
    LET holds == IF op = "==" THEN a = b ELSE IF op = "!=" THEN a # b
                 ELSE IF op = "<" THEN a < b ELSE IF op = ">" THEN a > b
                 ELSE IF op = "<=" THEN a <= b ELSE a >= b
    IN  IF holds THEN 1 ELSE 0

\* What a parse gives: a value and the position after it, or an error.
Parsed(val, pos) == [ok |-> TRUE, val |-> val, pos |-> pos]
ParseError == [ok |-> FALSE, val |-> 0, pos |-> 0]

IsOp(toks, pos, ops) ==
    pos <= Len(toks) /\ toks[pos].t = "op" /\ toks[pos].s \in ops

RECURSIVE PyComparison(_, _, _, _)
RECURSIVE PyOrRest(_, _, _, _)
RECURSIVE PyAndRest(_, _, _, _)
RECURSIVE PyAtom(_, _, _, _)

\* atom: a number, a string, a column, or a comparison in parentheses
PyAtom(toks, pos, d, row_idx) ==
    IF pos > Len(toks) THEN ParseError
    ELSE IF toks[pos].t \in {"num", "str"} THEN Parsed(toks[pos].v, pos + 1)
    ELSE IF toks[pos].t = "col"
         THEN IF ColIndex(d, toks[pos].s) < 0 THEN ParseError
              ELSE Parsed(Item(d, row_idx, ColIndex(d, toks[pos].s)), pos + 1)
    ELSE IF IsOp(toks, pos, {"("})
         THEN LET inner == PyComparison(toks, pos + 1, d, row_idx)
              IN  IF inner.ok /\ IsOp(toks, inner.pos, {")"})
                  THEN Parsed(inner.val, inner.pos + 1)
                  ELSE ParseError
    ELSE ParseError

\* and_expr: atom ('&' atom)*, left holding the value so far
PyAndRest(toks, left, d, row_idx) ==
    IF ~left.ok \/ ~IsOp(toks, left.pos, {"&"}) THEN left
    ELSE LET right == PyAtom(toks, left.pos + 1, d, row_idx)
         IN  IF ~right.ok THEN ParseError
             ELSE PyAndRest(toks, Parsed(BitAnd(left.val, right.val), right.pos),
                            d, row_idx)

\* or_expr: and_expr ('|' and_expr)*
PyOrRest(toks, left, d, row_idx) ==
    IF ~left.ok \/ ~IsOp(toks, left.pos, {"|"}) THEN left
    ELSE LET right == PyAndRest(toks, PyAtom(toks, left.pos + 1, d, row_idx),
                                d, row_idx)
         IN  IF ~right.ok THEN ParseError
             ELSE PyOrRest(toks, Parsed(BitOr(left.val, right.val), right.pos),
                           d, row_idx)

\* comparison: or_expr (comp_op or_expr)?; a longer chain raises
PyComparison(toks, pos, d, row_idx) ==
    LET ComparisonOperators == {"==", "!=", "<", ">", "<=", ">="}
        left == PyOrRest(toks, PyAndRest(toks, PyAtom(toks, pos, d, row_idx),
                                         d, row_idx), d, row_idx)
    IN  IF ~left.ok \/ ~IsOp(toks, left.pos, ComparisonOperators) THEN left
        ELSE LET start == left.pos + 1
                 right == PyOrRest(toks, PyAndRest(toks, PyAtom(toks, start, d, row_idx),
                                                   d, row_idx), d, row_idx)
             IN  IF ~right.ok \/ IsOp(toks, right.pos, ComparisonOperators)
                 THEN ParseError
                 ELSE Parsed(Compare(left.val, toks[left.pos].s, right.val), right.pos)

\* The rows of d that filter(eval(text)) keeps; not ok when the text does
\* not evaluate.
Kept(text, d) ==
    LET toks == PyLex(text)
        value(row_idx) == PyComparison(toks, 1, d, row_idx)
        whole(row_idx) == value(row_idx).ok /\ value(row_idx).pos = Len(toks) + 1
    IN  IF \E i \in 0..(Height(d) - 1) : ~whole(i) THEN [ok |-> FALSE, rows |-> {}]
        ELSE [ok |-> TRUE, rows |-> {i \in 0..(Height(d) - 1) : value(i).val = 1}]

---------------------------------------------------------------------------
(* Navigation and reset.                                                   *)

\* near_bottom: bottom_visible_row >= loaded_rows - 10, which depends on the
\* size of the terminal and the scroll position.
_check_and_load_more(s, near_bottom) ==
    IF s.loaded_rows >= Height(s.df) THEN Outcome(s, "all loaded")
    ELSE IF near_bottom THEN Outcome(_load_rows(s, s.loaded_rows + BATCH_SIZE), "done")
    ELSE Outcome(s, "not near")

\* on_key "G": _load_rows() without stop loads until the end of the
\* dataframe; then jump to the end.
JumpToEnd(s) ==
    LET s1 == _load_rows(s, Height(s.df))
    IN  Outcome(move_cursor(s1, Len(s1.rows) - 1, s1.cursor_coordinate.column), "done")

---------------------------------------------------------------------------
(* Initial state: __init__ and on_mount.                                   *)

Constructed(data, name) ==
    [df |-> data, dataframe |-> data, filename |-> name,
     loaded_rows |-> 0, sorted_columns |-> <<>>,
     selected_rows |-> Repeat(FALSE, Height(data)),
     visible_rows |-> Repeat(TRUE, Height(data)),
     fixed_rows |-> 0, fixed_columns |-> 0,
     histories |-> <<>>, pending_filename |-> "",
     cursor_coordinate |-> [row |-> 0, column |-> 0], rows |-> <<>>, columns |-> <<>>,
     modal |-> NoModal, files |-> {name}, status |-> "running",
     notice |-> "", outcome |-> "", old_row_indices |-> <<>>]

\* The datasets the behaviours start from: a null, equal values and distinct
\* values in a column.
People ==
    [columns |-> <<"age", "name">>,
     rows |-> << <<2, 3>>, <<NULL, 1>>, <<1, 2>> >>]

Twins ==
    [columns |-> <<"age", "name">>,
     rows |-> << <<1, 2>>, <<1, 1>>, <<2, NULL>> >>]

Staff ==
    [columns |-> <<"id", "age", "name">>,
     rows |-> << <<3, 1, 2>>, <<1, NULL, 1>>, <<2, 1, 2>> >>]

Ledger ==
    [columns |-> <<"age", "name", "_id">>,
     rows |-> << <<51, 7, 1>>, <<4, 8, 2>>, <<2, 7, 3>>, <<60, 8, 3>> >>]

\* The values an edit or a search dialog may give.
EditVals == {NULL, 1, 2}

\* A dataset of which a filter on the first column hides more loaded rows
\* than NearBottomRows.
Visits ==
    [columns |-> <<"age", "name">>,
     rows |-> << <<1, 1>>, <<2, 2>>, <<2, 3>>, <<1, 4>>, <<2, 5>>, <<1, 6>> >>]

\* The paths the save dialog may give.
Paths == {"data.csv", "copy.csv"}

---------------------------------------------------------------------------
(* Actions: one per handler.                                               *)

\* The objects behind the values.  refs.live are the objects the widget's
\* sorted_columns, selected_rows and visible_rows are bound to, refs.stack
\* those each entry of histories holds.  _add_history stores copies, _undo
\* binds the widget to copies of the popped entry, an assignment binds the
\* field to a new object, and an update in place (an item assignment, a del)
\* changes the object, and with it every entry that holds the same object.
\* s is the widget after handler op as the values alone give it.
Aliased(s, op, arg) ==
    LET Containers == {"sorted_columns", "selected_rows", "visible_rows"}
        Used(live, stack) ==
            {live[f] : f \in Containers}
                \cup UNION {{stack[p][f] : f \in Containers} : p \in DOMAIN stack}
        pushed == Len(s.histories) = Len(histories) + 1
        popped == op = "undo" /\ Len(s.histories) + 1 = Len(histories)
        stack1 == IF pushed
                  THEN Append(refs.stack, copy(refs.live, Used(refs.live, refs.stack)))
                  ELSE IF popped THEN SubSeq(refs.stack, 1, Len(refs.stack) - 1)
                  ELSE refs.stack
        inplace ==
            IF ~pushed THEN {}
            ELSE IF op \in {"do_search_column", "search_with_cell_value"}
            THEN {"selected_rows"}
            ELSE IF op = "toggle_selected_rows" /\ arg.current_row
            THEN {"selected_rows"}
            ELSE IF op \in {"do_filter", "filter_rows"}
            THEN {"visible_rows", "selected_rows"}
            ELSE IF op \in {"sort", "delete_column"} THEN {"sorted_columns"}
            ELSE {}
        rebound ==
            IF op = "reset" THEN Containers
            ELSE IF ~pushed THEN {}
            ELSE IF op \in {"sort", "delete_row"} THEN {"selected_rows", "visible_rows"}
            ELSE IF op = "toggle_selected_rows" /\ ~arg.current_row
            THEN {"selected_rows"}
            ELSE IF op \in {"clear_selected_rows", "filter_selected_rows"}
            THEN {"selected_rows"}
            ELSE {}
        entries ==
            [p \in DOMAIN s.histories |->
                [f \in DOMAIN s.histories[p] |->
                    IF f \in inplace /\ stack1[p][f] = refs.live[f]
                    THEN s[f] ELSE s.histories[p][f]]]
        new == copy(refs.live, Used(refs.live, stack1))
        live1 == IF popped
                 THEN copy(refs.stack[Len(refs.stack)], Used(refs.live, refs.stack))
                 ELSE [f \in Containers |->
                          IF f \in rebound THEN new[f] ELSE refs.live[f]]
    IN  [s |-> [s EXCEPT !.histories = entries],
         refs |-> [live |-> live1, stack |-> stack1]]

\* The handler named op ran with argument arg and left the widget as s.
Handled(s, op, arg) ==
    /\ df' = s.df
    /\ dataframe' = s.dataframe
    /\ filename' = s.filename
    /\ loaded_rows' = s.loaded_rows
    /\ sorted_columns' = s.sorted_columns
    /\ selected_rows' = s.selected_rows
    /\ visible_rows' = s.visible_rows
    /\ fixed_rows' = s.fixed_rows
    /\ fixed_columns' = s.fixed_columns
    /\ histories' = s.histories
    /\ pending_filename' = s.pending_filename
    /\ cursor_coordinate' = s.cursor_coordinate
    /\ rows' = s.rows
    /\ columns' = s.columns
    /\ modal' = s.modal
    /\ files' = s.files
    /\ status' = s.status
    /\ notice' = s.notice
    /\ steps' = IF modal.kind = "none" /\ op # "scroll_to_bottom"
                THEN steps + 1 ELSE steps
    /\ budget' = budget
    /\ loaded' = loaded
    /\ last_saved' = IF s.outcome = "saved" THEN <<s.df>> ELSE last_saved
    /\ last' = [op |-> op, arg |-> arg, outcome |-> s.outcome,
                old_row_indices |-> s.old_row_indices, pre |-> Self]
    /\ prev' = last

\* The handler ran where the identity of the objects is not followed.
Commit(s, op, arg) ==
    Handled(s, op, arg) /\ UNCHANGED <<expression, intent, compiled, refs>>

\* The handler ran and the objects it made, rebound and updated in place are
\* followed.
Tracked(s, op, arg) ==
    LET a == Aliased(s, op, arg)
    IN  Handled(a.s, op, arg) /\ refs' = a.refs
        /\ UNCHANGED <<expression, intent, compiled>>

InitWith(data, n) ==
    LET s == _setup_table(Constructed(data, "data.csv"), FALSE)
    IN  /\ df = s.df
        /\ dataframe = s.dataframe
        /\ filename = s.filename
        /\ loaded_rows = s.loaded_rows
        /\ sorted_columns = s.sorted_columns
        /\ selected_rows = s.selected_rows
        /\ visible_rows = s.visible_rows
        /\ fixed_rows = s.fixed_rows
        /\ fixed_columns = s.fixed_columns
        /\ histories = s.histories
        /\ pending_filename = s.pending_filename
        /\ cursor_coordinate = s.cursor_coordinate
        /\ rows = s.rows
        /\ columns = s.columns
        /\ modal = s.modal
        /\ files = s.files
        /\ status = s.status
        /\ notice = s.notice
        /\ steps = 0
        /\ budget = n
        /\ loaded = data
        /\ last_saved = <<>>
        /\ last = [op |-> "mount", arg |-> [none |-> TRUE], outcome |-> "done",
                   old_row_indices |-> <<>>, pre |-> [s EXCEPT !.notice = ""]]
        /\ prev = [op |-> "init", arg |-> [none |-> TRUE], outcome |-> "done",
                   old_row_indices |-> <<>>, pre |-> [s EXCEPT !.notice = ""]]
        /\ refs = [live |-> [sorted_columns |-> 0, selected_rows |-> 1,
                             visible_rows |-> 2],
                   stack |-> <<>>]

\* Nothing is typed in a filter dialog and nothing was compiled.
NoExpression ==
    expression = <<>> /\ intent = [kind |-> "none"] /\ compiled = [by |-> "none"]

\* The table has the focus: no modal screen is open.
Idle == status = "running" /\ steps < budget /\ modal.kind = "none"

\* The modal screen of this kind is open.  steps counts the keys pressed on
\* the table, so that an open dialog can always be answered.
InModal(kind) == status = "running" /\ modal.kind = kind

\* Why a dialog gave no result: the user cancelled it, or its validation
\* refused the input.
Dismissed(cause) == [cause |-> cause]

\* A click on a cell, or the arrow keys: the cursor goes to a cell shown.
MoveCursor ==
    /\ Idle
    /\ \E row \in 0..(Len(rows) - 1), column \in 0..(Len(columns) - 1) :
          /\ [row |-> row, column |-> column] # cursor_coordinate
          /\ Commit(Outcome(move_cursor(Self, row, column), "done"), "move_cursor",
                    [row |-> row, column |-> column])

\* The arrow keys left and right (DataTable.action_cursor_left / _right).
CursorLeft ==
    /\ Idle
    /\ Commit(Outcome(move_cursor(Self, cursor_coordinate.row,
                                  cursor_coordinate.column - 1), "done"),
              "cursor_left", None)

CursorRight ==
    /\ Idle
    /\ Commit(Outcome(move_cursor(Self, cursor_coordinate.row,
                                  cursor_coordinate.column + 1), "done"),
              "cursor_right", None)

KeyG == Idle /\ Commit(JumpToEnd(Self), "jump_to_end", None)

ScrollDown ==
    /\ Idle
    /\ \E near_bottom \in BOOLEAN :
          Commit(_check_and_load_more(Self, near_bottom), "check_and_load_more",
                 [near_bottom |-> near_bottom])

\* The mouse wheel turned down with the table scrolled to the end of the
\* rows it shows, in a window of height rows: scroll_y is at its maximum.
\* The wheel is no key: it does not count in steps.
ScrollToBottom ==
    /\ status = "running" /\ modal.kind = "none"
    /\ \E visible_row_count \in 1..MaxViewport :
          LET scroll_y == Max(0, Len(rows) - visible_row_count)
              bottom_visible_row == scroll_y + visible_row_count
              near_bottom == bottom_visible_row >= loaded_rows - NearBottomRows
          IN  Commit(_check_and_load_more(Self, near_bottom), "scroll_to_bottom",
                     [near_bottom |-> near_bottom])

DeleteColumn == Idle /\ Commit(_delete_column(Self), "delete_column", None)

DeleteRow == Idle /\ Commit(_delete_row(Self), "delete_row", None)

MoveColumn ==
    /\ Idle
    /\ \E direction \in {"left", "right"} :
          Commit(_move_column(Self, direction), "move_column", [direction |-> direction])

MoveRow ==
    /\ Idle
    /\ \E direction \in {"up", "down"} :
          Commit(_move_row(Self, direction), "move_row", [direction |-> direction])

SortByColumn ==
    /\ Idle
    /\ \E descending \in BOOLEAN :
          \E old_row_indices \in SortResultOrders(Self, descending) :
              Commit(_sort_by_column(Self, descending, old_row_indices), "sort",
                     [descending |-> descending,
                      column |-> cursor_coordinate.column])

EditCell == Idle /\ Commit(_edit_cell(Self), "edit_cell", None)

DoEditCell ==
    /\ InModal("edit")
    /\ \/ \E cause \in {"cancel", "invalid"} :
             Commit(_do_edit_cell(Self, None), "do_edit_cell", Dismissed(cause))
       \/ \E new_value \in EditVals :
             Commit(_do_edit_cell(Self, [none |-> FALSE, row_key |-> modal.row_key,
                                         col_idx |-> modal.col_idx,
                                         new_value |-> new_value]),
                    "do_edit_cell", [new_value |-> new_value])

SearchColumn ==
    /\ Idle
    /\ \E all_columns \in BOOLEAN :
          Commit(_search_column(Self, all_columns), "search_column",
                 [all_columns |-> all_columns])

DoSearchColumn ==
    /\ InModal("search") \/ InModal("search all")
    /\ \/ Commit(_do_search_column(Self, None), "do_search_column", Dismissed("cancel"))
       \/ \E term \in EditVals :
             Commit(_do_search_column(Self,
                        [none |-> FALSE, term |-> term,
                         col_name |-> IF modal.kind = "search"
                                      THEN At(df.columns, modal.col_idx) ELSE ""]),
                    "do_search_column",
                    [term |-> term, all_columns |-> modal.kind = "search all"])

SearchWithCellValue ==
    Idle /\ Commit(_search_with_cell_value(Self), "search_with_cell_value", None)

ToggleSelectedRows ==
    /\ Idle
    /\ \E current_row \in BOOLEAN :
          Commit(_toggle_selected_rows(Self, current_row), "toggle_selected_rows",
                 [current_row |-> current_row])

ClearSelectedRows ==
    Idle /\ Commit(_clear_selected_rows(Self), "clear_selected_rows", None)

FilterSelectedRows ==
    Idle /\ Commit(_filter_selected_rows(Self), "filter_selected_rows", None)

FilterRows == Idle /\ Commit(_filter_rows(Self), "filter_rows", None)

OpenFilterScreen == Idle /\ Commit(_open_filter_screen(Self), "open_filter_screen", None)

\* The expressions the filter dialog may give: a comparison of the current
\* column with a value.
DoFilter ==
    /\ InModal("filter")
    /\ \/ \E cause \in {"cancel", "invalid"} :
             Commit(_do_filter(Self, None), "do_filter", Dismissed(cause))
       \/ \E kind \in {"eq", "gt"}, val \in EditVals \ {NULL} :
             Commit(_do_filter(Self, [none |-> FALSE,
                                      expr |-> [kind |-> kind,
                                                col |-> At(df.columns, modal.col_idx),
                                                val |-> val]]),
                    "do_filter", [kind |-> kind, val |-> val])

OpenFreezeScreen == Idle /\ Commit(_open_freeze_screen(Self), "open_freeze_screen", None)

DoFreeze ==
    /\ InModal("freeze")
    /\ \/ \E cause \in {"cancel", "invalid"} :
             Commit(_do_freeze(Self, None), "do_freeze", Dismissed(cause))
       \/ \E fr \in 0..1, fc \in 0..1 :
             Commit(_do_freeze(Self, [none |-> FALSE, fixed_rows |-> fr,
                                      fixed_columns |-> fc]),
                    "do_freeze", [fixed_rows |-> fr, fixed_columns |-> fc])

SaveToFile == Idle /\ Commit(_save_to_file(Self), "save_to_file", None)

OnSaveFileScreen ==
    /\ InModal("save")
    /\ \/ Commit(_on_save_file_screen(Self, None, TRUE), "on_save_file_screen",
                 Dismissed("cancel"))
       \/ \E name \in Paths, write_ok \in BOOLEAN :
             Commit(_on_save_file_screen(Self, [none |-> FALSE, filename |-> name],
                                         write_ok),
                    "on_save_file_screen", [filename |-> name])

OnOverwriteScreen ==
    /\ InModal("confirm")
    /\ \E should_overwrite \in BOOLEAN, write_ok \in BOOLEAN :
          Commit(_on_overwrite_screen(Self, should_overwrite, write_ok),
                 "on_overwrite_screen", [should_overwrite |-> should_overwrite])

Undo == Idle /\ Commit(_undo(Self), "undo", None)

\* on_key "U"
Reset ==
    Idle /\ Commit(Outcome(Notify(_setup_table(Self, TRUE), "information"), "done"),
                   "reset", None)

Next ==
    \/ MoveCursor \/ KeyG \/ ScrollDown
    \/ DeleteColumn \/ DeleteRow \/ MoveColumn \/ MoveRow
    \/ SortByColumn
    \/ EditCell \/ DoEditCell
    \/ SearchColumn \/ DoSearchColumn \/ SearchWithCellValue
    \/ ToggleSelectedRows \/ ClearSelectedRows
    \/ FilterSelectedRows \/ FilterRows \/ OpenFilterScreen \/ DoFilter
    \/ OpenFreezeScreen \/ DoFreeze
    \/ SaveToFile \/ OnSaveFileScreen \/ OnOverwriteScreen
    \/ Undo \/ Reset

Init == (\E data \in {People, Twins} : InitWith(data, MaxSteps)) /\ NoExpression

Spec == Init /\ [][Next]_vars

\* The behaviours that only sort: three columns, the cursor walks along the
\* first row and the sort keys are pressed.
InitSort == InitWith(Staff, MaxSortSteps) /\ NoExpression

NextSort == CursorLeft \/ CursorRight \/ SortByColumn

SpecSort == InitSort /\ [][NextSort]_vars

\* The behaviours that only search, select, filter and undo.
InitScope == InitWith(People, MaxScopeSteps) /\ NoExpression

NextScope ==
    \/ SearchColumn \/ DoSearchColumn \/ SearchWithCellValue
    \/ ToggleSelectedRows
    \/ FilterSelectedRows \/ FilterRows \/ OpenFilterScreen \/ DoFilter
    \/ Undo \/ Reset

SpecScope == InitScope /\ [][NextScope]_vars

\* The behaviours in which the user moves the cursor, filters and undoes,
\* and goes on turning the mouse wheel at the end of the rows shown: the
\* event loop handles every wheel event that is posted.
InitLoad == InitWith(Visits, MaxLoadSteps) /\ NoExpression

NextLoad == ScrollToBottom \/ MoveCursor \/ FilterRows \/ Undo

SpecLoad == InitLoad /\ [][NextLoad]_vars /\ WF_vars(ScrollToBottom)

\* The behaviours in which the objects behind selected_rows, visible_rows
\* and sorted_columns are followed through the handlers that update them in
\* place, the ones that rebind them, and undo.
NextAlias ==
    \/ MoveCursor
    \/ Idle /\ Tracked(_search_with_cell_value(Self), "search_with_cell_value", None)
    \/ Idle /\ \E current_row \in BOOLEAN :
                  Tracked(_toggle_selected_rows(Self, current_row),
                          "toggle_selected_rows", [current_row |-> current_row])
    \/ Idle /\ Tracked(_filter_rows(Self), "filter_rows", None)
    \/ Idle /\ \E descending \in BOOLEAN :
                  \E old_row_indices \in SortResultOrders(Self, descending) :
                      Tracked(_sort_by_column(Self, descending, old_row_indices),
                              "sort", [descending |-> descending,
                                       column |-> cursor_coordinate.column])
    \/ Idle /\ Tracked(_delete_column(Self), "delete_column", None)
    \/ Idle /\ Tracked(_undo(Self), "undo", None)

SpecAlias == InitScope /\ [][NextAlias]_vars

\* What is typed into the filter dialog: a reference alone ($ and then _,
\* digits or a name), a predicate of comparisons of a column with a literal
\* joined by && and ||, or pieces of an expression that has no reference.
Intents ==
    LET References ==
            {<<"_">>, <<"0">>, <<"1">>, <<"2">>, <<"3">>, <<"4">>, <<"1", "0">>,
             <<"a", "g", "e">>, <<"n", "a", "m", "e">>, <<"_", "i", "d">>,
             <<"z", "i", "p">>, <<"_", "x">>, <<"a", "g">>}
        Comparisons ==
            {[ref |-> <<"_">>, op |-> <<">">>, lit |-> <<"5", "0">>],
             [ref |-> <<"1">>, op |-> <<">">>, lit |-> <<"3">>],
             [ref |-> <<"n", "a", "m", "e">>, op |-> <<"=", "=">>,
              lit |-> <<"'", "A", "l", "e", "x", "'">>],
             [ref |-> <<"2">>, op |-> <<"<">>, lit |-> <<"8">>]}
        Connectives == {<<"&", "&">>, <<"|", "|">>}
        NativePieces ==
            {PlCol("age"), <<"a", "g", "e">>, <<" ">>, <<">">>, <<"3">>, <<".">>,
             <<"'", "a", " ", "b", "'">>, <<"(">>, <<")">>, <<"&", "&">>}
    IN  {[kind |-> "reference", ref |-> r] : r \in References}
        \cup UNION {{[kind |-> "predicate", terms |-> t, joins |-> j, spaced |-> s] :
                        t \in [1..n -> Comparisons], j \in [1..(n - 1) -> Connectives],
                        s \in BOOLEAN} : n \in 1..MaxTerms}
        \cup UNION {{[kind |-> "native", pieces |-> p] : p \in [1..n -> NativePieces]} :
                       n \in 1..MaxPieces}

RECURSIVE Flatten(_)
Flatten(pieces) ==
    IF pieces = <<>> THEN <<>> ELSE pieces[1] \o Flatten(Tail(pieces))

\* The text of a predicate from its term i on.
RECURSIVE RenderTerms(_, _)
RenderTerms(i, p) ==
    LET sp == IF p.spaced THEN <<" ">> ELSE <<>>
        term == <<"$">> \o p.terms[i].ref \o sp \o p.terms[i].op \o sp \o p.terms[i].lit
    IN  IF i = Len(p.terms) THEN term
        ELSE term \o sp \o p.joins[i] \o sp \o RenderTerms(i + 1, p)

\* The text the user types for what they mean.
Render(i) ==
    IF i.kind = "reference" THEN <<"$">> \o i.ref
    ELSE IF i.kind = "predicate" THEN RenderTerms(1, i)
    ELSE Flatten(i.pieces)

\* The fields of the table, which the compilers only read.
tablevars ==
    <<df, dataframe, filename, loaded_rows, sorted_columns, selected_rows,
      visible_rows, fixed_rows, fixed_columns, histories, pending_filename,
      cursor_coordinate, rows, columns, modal, files, status, notice,
      steps, budget, loaded, last_saved, last, prev, refs>>

\* The compiler of main.py run on the text, for the column under the
\* cursor.
ParseFilterExpression ==
    /\ status = "running"
    /\ compiled' = [by |-> "parse_filter_expression",
                    current_col_idx |-> cursor_coordinate.column,
                    result |-> parse_filter_expression(expression, df,
                                                       cursor_coordinate.column)]
    /\ UNCHANGED <<tablevars, expression, intent>>

\* The compiler of common.py on the same text.
ParsePolarsExpression ==
    /\ status = "running"
    /\ compiled' = [by |-> "parse_polars_expression",
                    current_col_idx |-> cursor_coordinate.column,
                    result |-> parse_polars_expression(expression, df,
                                                       cursor_coordinate.column)]
    /\ UNCHANGED <<tablevars, expression, intent>>

\* The behaviours that compile: an expression is typed, the cursor walks
\* along the first row, and either compiler is run on the expression.
InitExpr ==
    /\ InitWith(Ledger, MaxExprSteps)
    /\ \E i \in Intents : intent = i /\ expression = Render(i)
    /\ compiled = [by |-> "none"]

NextExpr ==
    \/ CursorLeft \/ CursorRight
    \/ ParseFilterExpression \/ ParsePolarsExpression

SpecExpr == InitExpr /\ [][NextExpr]_vars

---------------------------------------------------------------------------
(* Properties.                                                             *)

\* The handler that ran last returned normally.
Returned == status = "running"

\* The fields the specification calls the ViewState.
ViewState(s) ==
    [df |-> s.df, sorted_columns |-> s.sorted_columns,
     selected_rows |-> s.selected_rows, visible_rows |-> s.visible_rows,
     cursor_coordinate |-> s.cursor_coordinate]

\* The history entry h holds the fields of s.
SnapshotOf(h, s) == h = History(s, h.description)

\* The handlers that push their history entry and change the fields in one run.
MutatingOps ==
    {"sort", "delete_row", "delete_column", "move_row", "move_column",
     "toggle_selected_rows", "clear_selected_rows", "search_with_cell_value",
     "do_search_column", "do_filter", "filter_rows", "filter_selected_rows",
     "do_freeze", "reset"}

\* The last handler changed a field that a history entry records.
ChangedFields ==
    History(Self, "") # History(last.pre, "")

\* C1: in every state the handlers reach, selected_rows and visible_rows
\* have one flag per row of the working dataframe.  The handlers do not keep
\* this: _filter_selected_rows resizes selected_rows only.
C1_FlagsMatchRows ==
    Returned => /\ Len(selected_rows) = Height(df)
                /\ Len(visible_rows) = Height(df)

\* C2: an undo directly after a handler that pushed its history entry gives
\* back the dataframe, the sort keys, the selected and visible flags and the
\* cursor of the state before that handler.  The cursor is not given back:
\* _setup_table clears the table, which puts the cursor on (0, 0).
C2_UndoRestoresViewState ==
    ( /\ Returned
      /\ last.op = "undo" /\ last.outcome = "done"
      /\ prev.op \in MutatingOps
      /\ Len(last.pre.histories) = Len(prev.pre.histories) + 1 )
    => ViewState(Self) = ViewState(prev.pre)

\* C3: a handler that changed a field has pushed exactly one history entry,
\* and the entry holds the fields as they were before the handler.  The reset
\* pushes none, and _search_all_columns loads rows before it pushes.
C3_SnapshotBeforeMutate ==
    ( /\ Returned
      /\ last.op \in MutatingOps
      /\ ChangedFields )
    => /\ Len(histories) = Len(last.pre.histories) + 1
       /\ SubSeq(histories, 1, Len(last.pre.histories)) = last.pre.histories
       /\ SnapshotOf(histories[Len(histories)], last.pre)

\* C4: after a reset the history stack is empty, and an undo directly after
\* a reset finds nothing to undo.  The reset leaves histories as it was.
C4_ResetEmptiesHistory ==
    /\ (Returned /\ last.op = "reset") => histories = <<>>
    /\ (Returned /\ last.op = "undo" /\ prev.op = "reset")
           => last.outcome = "nothing to undo"

\* The flags and counts a reset leaves.
ResetClean ==
    /\ sorted_columns = <<>>
    /\ selected_rows = Repeat(FALSE, Height(df))
    /\ visible_rows = Repeat(TRUE, Height(df))
    /\ fixed_rows = 0
    /\ fixed_columns = 0

---------------------------------------------------------------------------
(* Properties of the sort.                                                 *)

\* The last handler was _sort_by_column on a column of the dataframe.
SortedLast == last.op = "sort" /\ last.arg.column < Width(last.pre.df)

\* The column the last sort was asked for.
SortedColumn == At(last.pre.df.columns, last.arg.column)

\* The column was a sort key with the flag the last sort asked for.
SameFlagAgain ==
    /\ SortedLast
    /\ \E i \in DOMAIN last.pre.sorted_columns :
          last.pre.sorted_columns[i] =
              [col |-> SortedColumn, desc |-> last.arg.descending]

\* The last sort changed the sort keys.
ToggledSort == SortedLast /\ ~SameFlagAgain

NoKeyTwice(keys) ==
    \A i, j \in DOMAIN keys : keys[i].col = keys[j].col => i = j

\* The keys of keys on other columns than col, in their order.
OtherKeys(keys, col) ==
    LET Other(k) == k.col # col IN SelectSeq(keys, Other)

\* C7: a sort that changes the sort keys puts the column at the end with
\* the new flag, whether it was a key with the opposite flag or no key; the
\* other keys keep their order and flags, and no column is a key twice.
C7_ToggledKeyGoesLast ==
    /\ NoKeyTwice(sorted_columns)
    /\ ToggledSort =>
          /\ sorted_columns # <<>>
          /\ sorted_columns[Len(sorted_columns)] =
                 [col |-> SortedColumn, desc |-> last.arg.descending]
          /\ SubSeq(sorted_columns, 1, Len(sorted_columns) - 1) =
                 OtherKeys(last.pre.sorted_columns, SortedColumn)

\* Of three keys, one that is not the last is toggled to the opposite flag.
C7_Witness ==
    /\ ToggledSort
    /\ Len(last.pre.sorted_columns) = 3
    /\ \E i \in 1..2 :
          last.pre.sorted_columns[i] =
              [col |-> SortedColumn, desc |-> ~last.arg.descending]

\* C8: a sort that changes the sort keys moves the selected flag and the
\* visible flag of every row with the row: row i after the sort is row
\* old_row_indices[i] before it, with the flags that row had.
C8_FlagsFollowRows ==
    ToggledSort =>
        LET p == last.old_row_indices
            n == Height(last.pre.df)
        IN  /\ Len(p) = n
            /\ \A r \in 0..(n - 1) : \E i \in 1..n : p[i] = r
            /\ Height(df) = n /\ Len(selected_rows) = n /\ Len(visible_rows) = n
            /\ \A i \in 1..n :
                  /\ df.rows[i] = last.pre.df.rows[p[i] + 1]
                  /\ selected_rows[i] = last.pre.selected_rows[p[i] + 1]
                  /\ visible_rows[i] = last.pre.visible_rows[p[i] + 1]

\* A sort that moved rows, selected flags and visible flags, the two kinds
\* of flags being different.
C8_Witness ==
    /\ ToggledSort
    /\ df # last.pre.df
    /\ selected_rows # last.pre.selected_rows
    /\ visible_rows # last.pre.visible_rows
    /\ selected_rows # visible_rows

---------------------------------------------------------------------------
(* Properties of the order of the rows.                                    *)

\* The values of column col of frame d, top to bottom.
ColumnValues(d, col) ==
    [i \in 1..Height(d) |-> At(d.rows[i], ColIndex(d, col))]

Reverse(lst) == [i \in 1..Len(lst) |-> lst[Len(lst) + 1 - i]]

\* The values of vals that are not null, in their order.
NonNull(vals) ==
    LET Present(v) == v # NULL IN SelectSeq(vals, Present)

\* No null stands above a value.
NullsLast(vals) ==
    \A i, j \in 1..Len(vals) : (i < j /\ vals[i] = NULL) => vals[j] = NULL

NoNulls(vals) == \A i \in 1..Len(vals) : vals[i] # NULL

Distinct(vals) == \A i, j \in 1..Len(vals) : vals[i] = vals[j] => i = j

\* The last two handlers: a sort ascending that changed the keys, then a
\* sort descending on the same column.
AscThenDesc ==
    /\ ToggledSort /\ last.arg.descending
    /\ prev.op = "sort" /\ prev.outcome = "done" /\ ~prev.arg.descending
    /\ prev.arg.column = last.arg.column

\* C9 as the specification states it: ascending then descending on a
\* column gives the rows of the ascending order in reverse, the nulls last
\* in both orders.
C9_DescIsReverseOfAsc ==
    AscThenDesc =>
        /\ df.rows = Reverse(last.pre.df.rows)
        /\ NullsLast(ColumnValues(last.pre.df, SortedColumn))
        /\ NullsLast(ColumnValues(df, SortedColumn))

\* C9: when the column is the only sort key, ascending then descending
\* leaves the nulls of the column last in both orders and the values that
\* are not null in reverse; the rows are the exact reverse when the column
\* has no null and no value twice.
C9_DescReversesValues ==
    (AscThenDesc /\ Len(sorted_columns) = 1) =>
        LET asc  == ColumnValues(last.pre.df, SortedColumn)
            desc == ColumnValues(df, SortedColumn)
        IN  /\ NullsLast(asc)
            /\ NullsLast(desc)
            /\ NonNull(desc) = Reverse(NonNull(asc))
            /\ (NoNulls(asc) /\ Distinct(asc)) => df.rows = Reverse(last.pre.df.rows)

\* Ascending then descending on a column that holds a null and two values.
C9_Witness ==
    /\ AscThenDesc /\ Len(sorted_columns) = 1
    /\ ~NoNulls(ColumnValues(df, SortedColumn))
    /\ Len(NonNull(ColumnValues(df, SortedColumn))) >= 2
    /\ Distinct(NonNull(ColumnValues(df, SortedColumn)))

\* Row a may not stand below row b: on the first key where they differ, a
\* has the value and b the null, or both have values and a's comes first in
\* the direction of the key.
Precedes(d, a, b, keys) ==
    \E k \in 1..Len(keys) :
        LET va(j) == At(a, ColIndex(d, keys[j].col))
            vb(j) == At(b, ColIndex(d, keys[j].col))
        IN  /\ \A j \in 1..(k - 1) : va(j) = vb(j)
            /\ va(k) # vb(k)
            /\ \/ vb(k) = NULL
               \/ /\ va(k) # NULL
                  /\ IF keys[k].desc THEN va(k) > vb(k) ELSE va(k) < vb(k)

\* The rows of d are in the order of keys.
OrderedBy(d, keys) ==
    \A i, j \in 1..Height(d) : i < j => ~Precedes(d, d.rows[j], d.rows[i], keys)

\* C10: after a sort that changed the sort keys, the rows are in the order
\* of the sort keys, first key first, each in its direction, nulls after
\* the values in both directions; ascending then descending on a column
\* that is the only key leaves its values decreasing, nulls last.
C10_RowsOrderedByKeys ==
    /\ ToggledSort => OrderedBy(df, sorted_columns)
    /\ (AscThenDesc /\ Len(sorted_columns) = 1) =>
          LET vals == ColumnValues(df, SortedColumn)
          IN  \A i, j \in 1..Len(vals) :
                  i < j => \/ vals[j] = NULL
                           \/ vals[i] # NULL /\ vals[i] >= vals[j]

\* A sort on three keys of both directions, a null in a key column, that
\* moved rows.
C10_Witness ==
    /\ ToggledSort
    /\ Len(sorted_columns) = 3
    /\ \E i, j \in 1..3 : sorted_columns[i].desc /\ ~sorted_columns[j].desc
    /\ df # last.pre.df

---------------------------------------------------------------------------
(* Properties of the loading of rows.                                      *)

\* The targets _load_rows may be called with.
Targets == 0..(Max(Height(df), loaded_rows) + 1)

C12_LoadedWithinRows ==
    Returned => (0 <= loaded_rows /\ loaded_rows <= Height(df))

\* The 0-based indices of the rows shown.
Displayed == {key - 1 : key \in Range(rows)}

\* C13: after every handler the rows shown are the rows below loaded_rows
\* whose visible flag is true: a hidden row is not shown and counts in
\* loaded_rows.
C13_ShownAreLoadedVisible ==
    Returned =>
        Displayed = {i \in 0..(loaded_rows - 1) : At(visible_rows, i)}

\* A hidden row counted in loaded_rows and a shown row after it.
C13_Witness ==
    /\ Returned
    /\ \E i, j \in 0..(loaded_rows - 1) :
          i < j /\ ~At(visible_rows, i) /\ At(visible_rows, j) /\ j \in Displayed

---------------------------------------------------------------------------
(* Properties of the deletion of rows and columns.                         *)

\* The 0-based indices below loaded_rows of the rows of s whose visible
\* flag is true: the rows a table built from s shows, top to bottom.
ShownIndices(s) ==
    {i \in 0..(s.loaded_rows - 1) : i < Len(s.visible_rows) /\ At(s.visible_rows, i)}

\* The 0-based index in the dataframe of the row at position pos of the table.
IndexAtPosition(s, pos) ==
    CHOOSE i \in ShownIndices(s) :
        Cardinality({j \in ShownIndices(s) : j < i}) = pos

\* The rows _delete_row is to remove: the selected ones when there are
\* any, else the row the cursor is on.
RowsToDelete(s) ==
    IF TRUE \in Range(s.selected_rows)
    THEN {i \in 0..(Height(s.df) - 1) : i < Len(s.selected_rows) /\ At(s.selected_rows, i)}
    ELSE {IndexAtPosition(s, s.cursor_coordinate.row)}

\* lst without the elements at the 0-based indices of gone.
Without(lst, gone) ==
    KeepIdx(lst, (0..(Len(lst) - 1)) \ gone, 0)

\* C14: a deletion of rows removes the selected rows when there are any,
\* else the row the cursor is on; the other rows keep their order and their
\* selected and visible flags, and both flag lists have the new row count.
\* After _move_row the key of the row under the cursor is not its index in
\* the dataframe any more, and another row is removed.
C14_DeletesSelectedOrCursorRow ==
    (Returned /\ last.op = "delete_row" /\ last.outcome = "done") =>
        LET gone == RowsToDelete(last.pre)
        IN  /\ df.rows = Without(last.pre.df.rows, gone)
            /\ selected_rows = Without(last.pre.selected_rows, gone)
            /\ visible_rows = Without(last.pre.visible_rows, gone)
            /\ Len(selected_rows) = Height(df)
            /\ Len(visible_rows) = Height(df)

\* The column under the cursor before the last handler.
CursorColumnBefore == At(last.pre.columns, last.pre.cursor_coordinate.column)

\* C15: a deletion of a column drops the column under the cursor from the
\* dataframe and from the sort keys, the other columns and keys staying in
\* their order; in every state, after an undo or a reset too, every sort
\* key is a column of the working dataframe.
C15_SortKeysAreColumns ==
    /\ Returned => \A i \in DOMAIN sorted_columns :
                       sorted_columns[i].col \in Range(df.columns)
    /\ (Returned /\ last.op = "delete_column" /\ last.outcome = "done") =>
          LET NotGone(c) == c # CursorColumnBefore
              KeyNotGone(k) == k.col # CursorColumnBefore
          IN  /\ CursorColumnBefore \in Range(last.pre.df.columns)
              /\ df.columns = SelectSeq(last.pre.df.columns, NotGone)
              /\ columns = df.columns
              /\ sorted_columns = SelectSeq(last.pre.sorted_columns, KeyNotGone)

\* The column under the cursor was a sort key when it was deleted.
C15_Witness ==
    /\ Returned /\ last.op = "delete_column" /\ last.outcome = "done"
    /\ \E i \in DOMAIN last.pre.sorted_columns :
          last.pre.sorted_columns[i].col = CursorColumnBefore
    /\ Len(sorted_columns) < Len(last.pre.sorted_columns)

---------------------------------------------------------------------------
(* Properties of the moves.                                                *)

\* The last handler was a _move_column towards the edge the cursor is on.
MoveColumnAtEdge ==
    /\ last.op = "move_column"
    /\ \/ /\ last.arg.direction = "left"
          /\ last.pre.cursor_coordinate.column = 0
       \/ /\ last.arg.direction = "right"
          /\ last.pre.cursor_coordinate.column = Max(Len(last.pre.columns) - 1, 0)

\* C16: a _move_column to the left at column 0, or to the right at the last
\* column, changes no field, pushes no history entry and notifies a warning.
\* On a table that shows no row the handler raises instead: cursor_column_key
\* is read before the edge is tested.
C16_MoveColumnAtEdgeNoOp ==
    MoveColumnAtEdge => (Self = last.pre /\ notice = "warning")

\* The last handler was a _move_row whose swap target is a row shown.
MoveRowInRange ==
    /\ last.op = "move_row"
    /\ LET pos == last.pre.cursor_coordinate.row
       IN  IF last.arg.direction = "up"
           THEN pos > 0 /\ pos < Len(last.pre.rows)
           ELSE pos >= 0 /\ pos < Len(last.pre.rows) - 1

\* The position of the table the last _move_row moves the cursor row to.
SwapPosition ==
    IF last.arg.direction = "up"
    THEN last.pre.cursor_coordinate.row - 1
    ELSE last.pre.cursor_coordinate.row + 1

\* C17: a _move_row with its swap target in range exchanges, in the
\* dataframe, the row under the cursor and the row shown next to it, leaves
\* every other row at its index and puts the cursor on the moved row.  The
\* handler takes the two indices from the row keys, which a former move has
\* left on other rows.
C17_MoveRowSwapsNeighbours ==
    (Returned /\ MoveRowInRange) =>
        LET a == IndexAtPosition(last.pre, last.pre.cursor_coordinate.row)
            b == IndexAtPosition(last.pre, SwapPosition)
        IN  /\ df.rows = Swap(last.pre.df.rows, a, b)
            /\ cursor_coordinate =
                   [row |-> SwapPosition, column |-> last.pre.cursor_coordinate.column]

---------------------------------------------------------------------------
(* Properties of the edit and of the dialogs.                              *)

\* The last two handlers: _edit_cell opened the dialog, _do_edit_cell got a
\* value from it.
EditedCell ==
    /\ last.op = "do_edit_cell" /\ last.outcome = "done"
    /\ prev.op = "edit_cell" /\ prev.outcome = "opened"

\* C18: an edit with a value the dialog accepts replaces the cell of the
\* dataframe at the row and column under the cursor and no other cell; the
\* row count, the flags, the sort keys and loaded_rows stay, and an undo
\* right after it gives the dataframe back.  The handler takes the row from
\* the row key, which after a _move_row names another row of the dataframe.
C18_EditReplacesCursorCell ==
    /\ (Returned /\ EditedCell) =>
          LET before == prev.pre
              row_idx == IndexAtPosition(before, before.cursor_coordinate.row)
              col_idx == before.cursor_coordinate.column
          IN  /\ df = WithCell(before.df, row_idx, col_idx, last.arg.new_value)
              /\ selected_rows = before.selected_rows
              /\ visible_rows = before.visible_rows
              /\ sorted_columns = before.sorted_columns
              /\ loaded_rows = before.loaded_rows
    /\ ( /\ Returned /\ last.op = "undo" /\ last.outcome = "done"
         /\ prev.op = "do_edit_cell" /\ prev.outcome = "done" )
       => df = prev.pre.df

\* The last handler is the callback of a dialog that gave no result for
\* this cause; the handler before it opened the dialog.
DialogOps == {"do_edit_cell", "do_search_column", "do_filter", "do_freeze",
              "on_save_file_screen"}

NoResult(cause) ==
    /\ last.op \in DialogOps
    /\ "cause" \in DOMAIN last.arg
    /\ last.arg.cause = cause

\* The fields and the history stack are those of s.
SameAsBefore(s) ==
    /\ ViewState(Self) = ViewState(s)
    /\ loaded_rows = s.loaded_rows
    /\ fixed_rows = s.fixed_rows
    /\ fixed_columns = s.fixed_columns
    /\ histories = s.histories

\* C19: an input the dialog's validation refuses (an edit value that does
\* not convert, a filter expression that does not compile, a negative
\* freeze count) leaves the dataframe, the fields of the view and the
\* history stack as they were before the key that opened the dialog.
C19_InvalidInputChangesNothing ==
    (Returned /\ NoResult("invalid")) => SameAsBefore(prev.pre)

\* C20: a cancelled dialog (edit, search, filter, freeze, save, or the
\* overwrite confirmation answered no) leaves the dataframe, the fields of
\* the view and the history stack as they were before the dialog was opened.
C20_CancelChangesNothing ==
    /\ (Returned /\ NoResult("cancel")) => SameAsBefore(prev.pre)
    /\ ( /\ Returned /\ last.op = "on_overwrite_screen"
         /\ ~last.arg.should_overwrite )
       => SameAsBefore(last.pre)

---------------------------------------------------------------------------
(* Properties of the search and of the filter.                             *)

\* The row i of s is shown when no filter has hidden it.
IsVisible(s, i) == i < Len(s.visible_rows) => At(s.visible_rows, i)

\* The last handler is a search from the dialog that found a match.
SearchDone ==
    Returned /\ last.op = "do_search_column" /\ last.outcome = "done"

\* The columns the search looked at, and the rows it matched: the visible
\* rows with the term in one of those columns.
SearchedColumns ==
    IF last.arg.all_columns THEN 0..(Width(last.pre.df) - 1)
    ELSE {last.pre.modal.col_idx}

MatchedRows ==
    {i \in 0..(Height(last.pre.df) - 1) :
        /\ IsVisible(last.pre, i)
        /\ \E c \in SearchedColumns : Item(last.pre.df, i, c) = last.arg.term}

\* C21: a search with a match, in one column or across all columns, sets
\* the selected flag of every matched row, leaves the selected flag of
\* every other row as it was, and leaves visible_rows as it was.  The
\* search across all columns only colours the matching cells.
C21_SearchAddsMatchesToSelected ==
    SearchDone =>
        /\ selected_rows = [i \in DOMAIN last.pre.selected_rows |->
                                (i - 1) \in MatchedRows \/ last.pre.selected_rows[i]]
        /\ visible_rows = last.pre.visible_rows

\* The last handler is a filter by an expression of the dialog.
FilterAnswered == last.op = "do_filter" /\ "kind" \in DOMAIN last.arg

\* The expression the dialog gave, and the rows it matched: the visible rows
\* that satisfy it.
FilterExpr ==
    [kind |-> last.arg.kind,
     col |-> At(last.pre.df.columns, last.pre.modal.col_idx),
     val |-> last.arg.val]

FilterMatchedRows ==
    {i \in 0..(Height(last.pre.df) - 1) :
        IsVisible(last.pre, i) /\ RowSatisfies(last.pre.df, i, FilterExpr)}

\* C22: a filter by expression with a match clears the visible and the
\* selected flag of every row that is not matched, leaves both flags of the
\* matched rows as they were, and leaves the dataframe as it was.  After
\* _filter_selected_rows has left visible_rows longer than selected_rows
\* the loop of _do_filter raises IndexError instead.
C22_FilterNarrowsFlags ==
    (FilterAnswered /\ FilterMatchedRows # {}) =>
        /\ Returned
        /\ visible_rows = [i \in DOMAIN last.pre.visible_rows |->
                               (i - 1) \in FilterMatchedRows /\ last.pre.visible_rows[i]]
        /\ selected_rows = [i \in DOMAIN last.pre.selected_rows |->
                                (i - 1) \in FilterMatchedRows /\ last.pre.selected_rows[i]]
        /\ df = last.pre.df

---------------------------------------------------------------------------
(* Properties of the operations that have nothing to do.                   *)

\* The last handler returned, changed no field and no history entry, and
\* reported a warning.
OnlyWarned ==
    /\ Returned
    /\ SameAsBefore(last.pre)
    /\ notice = "warning"

\* The last handler had nothing to do: an undo on an empty stack, a filter
\* or a search that matches no row, a clear or a filter-to-selected with no
\* row selected, a row move up at the first row or down at the last row.
NothingToDo ==
    \/ last.op = "undo" /\ last.pre.histories = <<>>
    \/ last.op = "do_filter" /\ "kind" \in DOMAIN last.arg /\ FilterMatchedRows = {}
    \/ last.op = "do_search_column" /\ "term" \in DOMAIN last.arg /\ MatchedRows = {}
    \/ /\ last.op \in {"clear_selected_rows", "filter_selected_rows"}
       /\ TRUE \notin Range(last.pre.selected_rows)
    \/ /\ last.op = "move_row"
       /\ \/ last.arg.direction = "up" /\ last.pre.cursor_coordinate.row = 0
          \/ /\ last.arg.direction = "down"
             /\ last.pre.cursor_coordinate.row >= Len(last.pre.rows) - 1

\* C23: an operation that has nothing to do leaves the dataframe, the
\* fields of the view and the history stack as they were and reports a
\* warning.  A search or a filter without a match raises instead when
\* _filter_selected_rows has left visible_rows, with a hidden row, longer
\* than the dataframe.
C23_NothingToDoOnlyWarns == NothingToDo => OnlyWarned

---------------------------------------------------------------------------
(* Properties of the freeze and of the save.                               *)

\* The last handler got counts from the freeze dialog.
FreezeConfirmed ==
    Returned /\ last.op = "do_freeze" /\ "fixed_rows" \in DOMAIN last.arg

\* C24: a freeze dialog confirmed with counts (r, c), none negative, sets
\* fixed_rows = r and fixed_columns = c, also for a count of 0 after a
\* larger one; a negative count is refused by the dialog and changes
\* nothing.  The handler assigns a count only when it is above 0.
C24_FreezeSetsCounts ==
    /\ FreezeConfirmed =>
          /\ fixed_rows = last.arg.fixed_rows
          /\ fixed_columns = last.arg.fixed_columns
    /\ (Returned /\ last.op = "do_freeze" /\ NoResult("invalid")) =>
          SameAsBefore(last.pre)

\* The last handler called _do_save and the write raised.
SaveFailed ==
    /\ last.op \in {"on_save_file_screen", "on_overwrite_screen"}
    /\ last.outcome = "exception"

\* C25: a save whose write fails leaves the dataframe, the reset baseline
\* dataframe, the filename, the fields of the view and the history stack
\* as they were before the save.
C25_FailedSaveChangesNothing ==
    SaveFailed =>
        /\ dataframe = last.pre.dataframe
        /\ filename = last.pre.filename
        /\ SameAsBefore(last.pre)

\* A failed save to another file of a dataframe that differs from the
\* baseline.
C25_Witness ==
    /\ SaveFailed
    /\ last.pre.df # last.pre.dataframe
    /\ histories # <<>>
    /\ last.op = "on_save_file_screen"
    /\ last.arg.filename # filename

\* C26: after a reported error (a failed save, a failed cell update, an
\* invalid expression, a failed conversion) no exception has left the
\* handler: the application still runs and takes further keys.  _do_save
\* and _do_edit_cell report the error and raise it again.
C26_ErrorKeepsSessionUsable == notice = "error" => Returned

---------------------------------------------------------------------------
(* Properties of the expression compiler.                                  *)

\* A compiler has run on the expression.
HasCompiled == compiled.by # "none"

\* The 0-based column a reference denotes as the specification reads it:
\* the current column for _, the column at the 1-based index for digits,
\* the column of that name for an identifier; -1 when there is none.
Denotes(ref, d, current_col_idx) ==
    IF ref = <<"_">> THEN current_col_idx
    ELSE IF IsDigits(ref)
         THEN IF ToInt(ref) \in 1..Width(d) THEN ToInt(ref) - 1 ELSE -1
    ELSE IF \E i \in 0..(Width(d) - 1) : Spelling[At(d.columns, i)] = ref
         THEN CHOOSE i \in 0..(Width(d) - 1) : Spelling[At(d.columns, i)] = ref
    ELSE -1

\* The text is the engine's reference to the column, alone or in the outer
\* pair of parentheses.
RefersTo(text, col_name) ==
    text \in {PlCol(col_name), <<"(">> \o PlCol(col_name) \o <<")">>}

\* C27: a reference resolves to the current column for $_, to the column at
\* the 1-based index for $<digits>, to the column of that name for
\* $<identifier>; it fails exactly when the index is outside
\* [1, column_count] or no column has the name.  Both compilers try $_
\* before the identifier, so $_id is read as $_ followed by id.
C27_ReferenceResolves ==
    (HasCompiled /\ intent.kind = "reference") =>
        LET col_idx == Denotes(intent.ref, df, compiled.current_col_idx)
        IN  IF col_idx = -1 THEN ~compiled.result.ok
            ELSE /\ compiled.result.ok
                 /\ RefersTo(compiled.result.text, At(df.columns, col_idx))

\* The value of a literal.
LitValue(lit) ==
    IF lit[1] = "'" THEN StrValue(SubSeq(lit, 2, Len(lit) - 1)) ELSE ToInt(lit)

\* The comparison holds for the row.
TermHolds(term, d, row_idx, current_col_idx) ==
    Compare(Item(d, row_idx, Denotes(term.ref, d, current_col_idx)),
            IF term.op = <<">">> THEN ">" ELSE IF term.op = <<"<">> THEN "<" ELSE "==",
            LitValue(term.lit)) = 1

\* The rows a predicate means: && binds tighter than ||, a comparison
\* tighter than both.  The terms from i to k are one conjunction when only
\* && stands between them.
Meant(p, d, current_col_idx) ==
    LET n == Len(p.terms)
        joined(i, k) == \A m \in i..(k - 1) : p.joins[m] = <<"&", "&">>
        starts == {i \in 1..n : i = 1 \/ p.joins[i - 1] = <<"|", "|">>}
    IN  {row_idx \in 0..(Height(d) - 1) :
            \E i \in starts :
                \A k \in i..n :
                    joined(i, k) => TermHolds(p.terms[k], d, row_idx, current_col_idx)}

\* C28: "$_ > 50" with the current column age compiles to a predicate
\* equivalent to age > 50, "$1 > 3 && $name == 'Alex'" to the conjunction
\* of the two comparisons, and in general every operand of && and || is
\* grouped so that its comparison binds tighter than the logical operator:
\* the compiled text, evaluated, keeps the rows the predicate means.
C28_CompiledMeansPredicate ==
    (HasCompiled /\ intent.kind = "predicate") =>
        /\ compiled.result.ok
        /\ Kept(compiled.result.text, df) =
               [ok |-> TRUE, rows |-> Meant(intent, df, compiled.current_col_idx)]

\* The expression has no $ in it.
NoReference == HasCompiled /\ "$" \notin Range(expression)

\* C29 as the specification has it: an expression without a $ token is
\* passed through unchanged, the output string equals the input string.
C29_OutputEqualsInput ==
    NoReference => (compiled.result.ok /\ compiled.result.text = expression)

\* The text without its spaces.
Unspaced(w) == SelectSeq(w, LAMBDA c : c # " ")

\* The text with && and || outside of string literals written ) & ( and
\* ) | (.
RECURSIVE Connected(_)
Connected(w) ==
    IF w = <<>> THEN <<>>
    ELSE IF QuotedLen(w, "'") > 0
         THEN SubSeq(w, 1, QuotedLen(w, "'")) \o Connected(From(w, QuotedLen(w, "'") + 1))
    ELSE IF QuotedLen(w, "\"") > 0
         THEN SubSeq(w, 1, QuotedLen(w, "\"")) \o Connected(From(w, QuotedLen(w, "\"") + 1))
    ELSE IF StartsWith(w, <<"&", "&">>) THEN <<")", "&", "(">> \o Connected(From(w, 3))
    ELSE IF StartsWith(w, <<"|", "|">>) THEN <<")", "|", "(">> \o Connected(From(w, 3))
    ELSE <<w[1]>> \o Connected(Tail(w))

PlLit(w) == <<"p", "l", ".", "l", "i", "t", "(">> \o w \o <<")">>

\* C29, amended: an expression without a $ token keeps every character that
\* is not a space, in order.  parse_filter_expression returns it in one outer
\* pair of parentheses, its tokens separated by spaces and && and || written
\* ) & ( and ) | (; parse_polars_expression returns the input string itself
\* when it contains "pl." and pl.lit(input) otherwise.
C29_NativeTokensKept ==
    NoReference =>
        LET text == compiled.result.text
        IN  /\ compiled.result.ok
            /\ compiled.by = "parse_filter_expression" =>
                  /\ text[1] = "(" /\ text[Len(text)] = ")"
                  /\ Unspaced(SubSeq(text, 2, Len(text) - 1))
                         = Unspaced(Connected(expression))
            /\ compiled.by = "parse_polars_expression" =>
                  /\ Contains(expression, <<"p", "l", ".">>) => text = expression
                  /\ ~Contains(expression, <<"p", "l", ".">>) => text = PlLit(expression)

\* An expression of the engine with a string literal, compiled by
\* parse_filter_expression.
C29_Witness ==
    /\ NoReference
    /\ compiled.by = "parse_filter_expression"
    /\ Contains(expression, <<"p", "l", ".">>)
    /\ "'" \in Range(expression)

---------------------------------------------------------------------------
(* Properties of the scope of the search and of the filter.                *)

\* A filter has hidden the row i of s.
Hidden(s, i) == i < Len(s.visible_rows) /\ ~At(s.visible_rows, i)

\* The rows of the dataframe before the last handler that a mask keeps, in
\* order.
KeptBy(mask) ==
    SelectSeq([i \in 1..Height(last.pre.df) |-> i - 1], LAMBDA rid : At(mask, rid))

\* The index, before the last handler, of the row that is at index j now:
\* filter to selected and delete keep the rows of their mask, a sort orders
\* them, a move exchanges the two rows of the keys, every other handler
\* leaves the rows in place.
RowBefore(j) ==
    IF last.op = "filter_selected_rows" /\ last.outcome = "done"
    THEN At(KeptBy(last.pre.selected_rows), j)
    ELSE IF last.op = "delete_row" /\ last.outcome = "done"
    THEN At(KeptBy(DeleteMask(last.pre)), j)
    ELSE IF last.op = "sort" /\ Len(last.old_row_indices) = Height(df)
    THEN At(last.old_row_indices, j)
    ELSE IF last.op = "move_row" /\ last.outcome = "done"
    THEN LET rid == At(last.pre.rows, last.pre.cursor_coordinate.row) - 1
             swap_rid == At(last.pre.rows, SwapPosition) - 1
         IN  IF j = rid THEN swap_rid ELSE IF j = swap_rid THEN rid ELSE j
    ELSE j

SearchOps == {"do_search_column", "search_with_cell_value"}

\* C30: a hidden row is out of the scope of what follows.  A search does
\* not set the selected flag of a row that is hidden, and no handler but
\* undo and reset shows a hidden row again: a row that was hidden before
\* the handler is hidden after it, so that under a filter the visible rows
\* only get fewer.  Filter to selected does show hidden rows again: it keeps
\* the hidden rows that are selected and leaves visible_rows as it was,
\* with the flags of other rows.
C30_HiddenRowsOutOfScope ==
    (Returned /\ last.op \notin {"undo", "reset"}) =>
        /\ last.op \in SearchOps =>
              \A i \in 0..(Len(selected_rows) - 1) :
                  (Hidden(last.pre, i) /\ At(selected_rows, i)) =>
                      At(last.pre.selected_rows, i)
        /\ \A j \in 0..(Height(df) - 1) :
              Hidden(last.pre, RowBefore(j)) => Hidden(Self, j)

---------------------------------------------------------------------------
(* Properties of the filter by the selected rows.                          *)

\* The last handler is _filter_rows with a row selected.
FilterBySelected ==
    last.op = "filter_rows" /\ TRUE \in Range(last.pre.selected_rows)

\* C31: a filter by the selected rows returns normally in every state it
\* is asked for, also with rows hidden, and leaves visible exactly the rows
\* that were visible and selected.  With a row hidden _do_filter applies
\* the whole list selected_rows as a mask to the frame of the visible rows
\* only, which raises.
C31_FilterBySelectedNarrows ==
    FilterBySelected =>
        /\ Returned
        /\ Len(visible_rows) = Len(last.pre.visible_rows)
        /\ \A i \in 0..(Len(visible_rows) - 1) :
              At(visible_rows, i) <=>
                  /\ At(last.pre.visible_rows, i)
                  /\ i < Len(last.pre.selected_rows)
                  /\ At(last.pre.selected_rows, i)

---------------------------------------------------------------------------
(* Properties of the selection and the loaded rows.                        *)

\* C32: when a handler has returned, every row with the selected flag set
\* has its index below loaded_rows: _highlight_rows loads up to the last
\* selected row.
C32_SelectedRowsAreLoaded ==
    Returned =>
        \A i \in 0..(Height(df) - 1) :
            (i < Len(selected_rows) /\ At(selected_rows, i)) => i < loaded_rows

\* A handler selected a row past the rows that were loaded before it, and
\* loaded further rows for it.
C32_Witness ==
    /\ Returned
    /\ loaded_rows > last.pre.loaded_rows
    /\ \E i \in 0..(Height(df) - 1) :
          /\ i < Len(selected_rows) /\ At(selected_rows, i)
          /\ i >= last.pre.loaded_rows
          /\ ~(i < Len(last.pre.selected_rows) /\ At(last.pre.selected_rows, i))

\* C33: an entry of histories, once pushed, is never changed by a later
\* handler: whatever search, filter, toggle, sort and delete column update
\* in place, every entry that stays on the stack is what it was, and no
\* container of the widget (after undo: none of the restored ones) is an
\* object that an entry on the stack holds.
C33_HistoryEntriesNeverChange ==
    /\ \A p \in 1..Min(Len(histories), Len(last.pre.histories)) :
          histories[p] = last.pre.histories[p]
    /\ \A p \in DOMAIN refs.stack :
          \A f \in DOMAIN refs.live : refs.stack[p][f] # refs.live[f]

\* An update in place followed a push onto a stack that held an entry, and
\* undo then restored the containers and left that entry on the stack.
C33_Witness ==
    /\ Returned
    /\ last.op = "undo" /\ last.outcome = "done"
    /\ histories # <<>>
    /\ prev.op \in {"search_with_cell_value", "toggle_selected_rows",
                    "filter_rows", "sort", "delete_column"}
    /\ Len(last.pre.histories) = Len(prev.pre.histories) + 1
    /\ <<last.pre.selected_rows, last.pre.visible_rows, last.pre.sorted_columns>> #
          <<prev.pre.selected_rows, prev.pre.visible_rows, prev.pre.sorted_columns>>

\* C34: after every handler the row shown at each position of the table has
\* as its key the index, plus one, of the row of the dataframe it shows, so
\* that the index a handler derives from the cursor's row key is the index
\* of the row under the cursor.  _move_row exchanges the two rows in the
\* dataframe and their places in the table, and leaves each key on the
\* content it was loaded with.
C34_RowKeyIsRowIndex ==
    Returned =>
        \A pos \in 0..(Len(rows) - 1) :
            At(rows, pos) - 1 = IndexAtPosition(Self, pos)

\* C35: a _move_row with its swap target in range keeps the selected and the
\* visible flag of each row with the row: the two flags at the two indices
\* of the dataframe the handler exchanges are exchanged too.  The handler
\* exchanges the rows of the dataframe and assigns neither list.
C35_MoveRowKeepsFlagsWithRows ==
    (Returned /\ MoveRowInRange) =>
        LET rid == At(last.pre.rows, last.pre.cursor_coordinate.row) - 1
            swap_rid == At(last.pre.rows, SwapPosition) - 1
        IN  /\ selected_rows = Swap(last.pre.selected_rows, rid, swap_rid)
            /\ visible_rows = Swap(last.pre.visible_rows, rid, swap_rid)

\* C36: after every handler a row that is hidden is not selected.  The
\* toggle of all rows inverts the flag of every row, the hidden ones too.
C36_SelectedRowsAreVisible ==
    Returned =>
        \A i \in 0..(Height(df) - 1) :
            (i < Len(selected_rows) /\ At(selected_rows, i)) =>
                (i < Len(visible_rows) /\ At(visible_rows, i))

\* C37: after every handler that leaves sort keys, the rows of the dataframe
\* are in an order of those keys: no row sorts strictly before a row above
\* it.  _move_row and _do_edit_cell change the rows and leave
\* sorted_columns as it is.
C37_RowsOrderedBySortKeys ==
    (Returned /\ sorted_columns # <<>>) =>
        \A i, j \in 0..(Height(df) - 1) :
            i < j => ~Before(df, At(df.rows, j), At(df.rows, i), sorted_columns, 1)

\* C38: with the user scrolling on at the end of the rows shown, every load
\* a scroll triggers raises loaded_rows by BATCH_SIZE or up to the row count
\* if that is nearer, and time and again, for as long as no handler raises,
\* all the rows are loaded, with rows hidden by a filter too.  The test of
\* _check_and_load_more compares the last row in view with loaded_rows,
\* which counts the hidden rows that the table does not show.
C38_ScrollingLoadsAllRows ==
    /\ []((Returned /\ last.op = "scroll_to_bottom" /\ last.outcome = "done") =>
            loaded_rows = Min(last.pre.loaded_rows + BATCH_SIZE, Height(df)))
    /\ []<>(~Returned \/ loaded_rows = Height(df))

\* C39: a path that exists is written only after the overwrite dialog for
\* that path was confirmed.  The filename dialog answered with a path that
\* exists writes nothing and opens the overwrite dialog for it; the write
\* after a confirmation goes to the path that dialog was opened for; a
\* declined overwrite writes nothing, changes no field and opens the
\* filename dialog again.
C39_OverwriteOnlyAfterConfirm ==
    /\ (/\ last.op = "on_save_file_screen" /\ "filename" \in DOMAIN last.arg
        /\ last.arg.filename \in last.pre.files) =>
          /\ Returned /\ last.outcome = "confirm"
          /\ modal.kind = "confirm"
          /\ pending_filename = last.arg.filename
          /\ [Self EXCEPT !.modal = last.pre.modal,
                          !.pending_filename = last.pre.pending_filename] = last.pre
    /\ (last.op = "on_overwrite_screen" /\ last.arg.should_overwrite) =>
          /\ prev.op = "on_save_file_screen" /\ prev.outcome = "confirm"
          /\ last.pre.pending_filename = prev.arg.filename
          /\ last.outcome = "saved" => filename = prev.arg.filename
          /\ files = last.pre.files
    /\ (last.op = "on_overwrite_screen" /\ ~last.arg.should_overwrite) =>
          /\ Returned /\ last.outcome = "declined"
          /\ modal.kind = "save"
          /\ [Self EXCEPT !.modal = last.pre.modal] = last.pre

\* The overwrite of a path that exists was confirmed and the file written,
\* under a name that is not the one the table was loaded from.
C39_Witness ==
    /\ Returned
    /\ last.op = "on_overwrite_screen" /\ last.arg.should_overwrite
    /\ last.outcome = "saved"
    /\ filename \in last.pre.files
    /\ filename # last.pre.filename

===========================================================================
